---- MODULE Spec2Model ----
(***************************************************************************)
(* Crop-suitability scoring engine of the smartfarm dashboard:             *)
(*   src/utils/ml_models.py            train_crop_recommendation_model,    *)
(*                                     predict_crop                        *)
(*   src/pages/3_Crop_Recommendation.py  the recommendation page script    *)
(*                                                                         *)
(* Numbers.  Every farm reading, ideal range bound and percentage that is  *)
(* a float in the source is kept as a fixed-point integer with two         *)
(* decimals (value * 100): ph 5.5 is 550, 100 % is 10000.  Per-parameter   *)
(* match percentages and "overall" are integers in the source (round())    *)
(* and are plain integers here.                                            *)
(*                                                                         *)
(* None is the empty sequence and a present value x is <<x>>.              *)
(***************************************************************************)
EXTENDS Integers, Sequences, FiniteSets, TLC

VARIABLES
    df,                    \* the caller's table (result of get_sheet_data)
    pc,                    \* position of the driver / of the page script
    model,                 \* 1st element of train's result (None or fitted classifier)
    features,              \* 2nd element of train's result (None or feature names)
    crops,                 \* 3rd element of train's result (None or crop list)
    accuracy,              \* 4th element of train's result (fixed point)
    train_exc,             \* "none", "caught" (by train's handler) or "escaped" (to the caller)
    train_df,              \* train's local df when it returned (None if it left early)
    scaler,                \* train's local StandardScaler (None if never fitted)
    input_data,            \* the observation handed to predict_crop
    X_input,               \* the vector predict_crop handed to predict_proba (None if not reached)
    recommended_crops,     \* predict_crop's 1st result
    probability_scores,    \* predict_crop's 2nd result (fixed point)
    parameter_match_info,  \* predict_crop's 3rd result
    crop_probs,            \* predict_crop's local ranked (crop, probability) list
    predict_exc,           \* "none", "caught" (by predict's handler) or "escaped"
    page,                  \* what the page script has shown / done in its last run
    rerun,                 \* the results of a second, independent train + predict
    cache,                 \* st.cache_resource's entries for train_crop_recommendation_model
    history,               \* the calls made through the cache, in order
    hist_df,               \* the table handed to process_historical_data
    processed_df,          \* what process_historical_data returned (None before the call)
    hist_error,            \* process_historical_data's handler ran
    zip_path,              \* the file ZIP_PATH names (0: no such file)
    zip_files,             \* the files (inodes) that hold or held the archive
    zip_pc,                \* per process: its position in code_zip.py
    zip_handle,            \* per process: the file it has open for writing (0: none)
    zip_stale,             \* per process: zip_mod_time is older than the sources
    download,              \* how the last download_code_zip call ended
    google_sheets_configured,  \* st.session_state of the home page
    spreadsheet_id,
    sheet_name,
    credentials_json,
    show_sheet_url,
    config_file,           \* .streamlit/sheets_config.json (None: no such file)
    auth_cache,            \* the one cached result of authenticate_google_sheets
    home_event,            \* what the last run of the home page did
    ideal_range,           \* <<min_val, max_val>> of one parameter
    outside,               \* how far the observed value is outside the range
    match_pair,            \* the match percentages <<below, above>> at that distance
    sheet,                 \* what the Sheets API has for a get_sheet_data call
    sheet_result           \* what get_sheet_data did

\* The state of the scoring engine and the recommendation page.
mlvars == <<df, pc, model, features, crops, accuracy, train_exc, train_df, scaler,
            input_data, X_input, recommended_crops, probability_scores,
            parameter_match_info, crop_probs, predict_exc, page, rerun>>

\* The state of the other parts of the dashboard.
cachevars == <<cache, history>>

histvars == <<hist_df, processed_df, hist_error>>

zipvars == <<zip_path, zip_files, zip_pc, zip_handle, zip_stale, download>>

session == <<google_sheets_configured, spreadsheet_id, sheet_name, credentials_json>>

homevars == <<session, show_sheet_url, config_file, auth_cache, home_event>>

matchvars == <<ideal_range, outside, match_pair>>

sheetvars == <<sheet, sheet_result>>

aux == <<cachevars, histvars, zipvars, homevars, matchvars, sheetvars>>

vars == <<mlvars, aux>>

----------------------------------------------------------------------------
(* Generic helpers *)

None == << >>
Some(x) == <<x>>
IsNone(o) == o = << >>
Val(o) == o[1]

Max(a, b) == IF a >= b THEN a ELSE b
Min(a, b) == IF a <= b THEN a ELSE b

Range(s) == {s[i] : i \in 1..Len(s)}

RECURSIVE SumSeq(_)
SumSeq(s) == IF s = << >> THEN 0 ELSE Head(s) + SumSeq(Tail(s))

\* A function over 1..n as a plain tuple.
Tuple(f, n) == SubSeq(f, 1, n)

CeilDiv(a, b) == (a + b - 1) \div b

\* Integer square root (floor), by bisection.
RECURSIVE SqrtBetween(_, _, _)
SqrtBetween(n, lo, hi) ==
    IF hi - lo <= 1 THEN lo
    ELSE LET mid == (lo + hi) \div 2
         IN  IF mid * mid <= n THEN SqrtBetween(n, mid, hi) ELSE SqrtBetween(n, lo, mid)

ISqrt(n) == SqrtBetween(n, 0, Min(n + 1, 46340))

\* Fixed-point factor: two decimals.
FP == 10 * 10

\* Python's round() of the rational num/den (den > 0): round half to even.
RoundHalfEven(num, den) ==
    LET q == num \div den
        r == num % den
    IN  IF 2 * r < den THEN q
        ELSE IF 2 * r > den THEN q + 1
        ELSE IF q % 2 = 0 THEN q ELSE q + 1

----------------------------------------------------------------------------
(* Program data *)

\* ml_models.py:23
required_features ==
    <<"nitrogen", "phosphorus", "potassium", "temperature", "humidity", "ph">>

\* ml_models.py:26-33: the alias table of train_crop_recommendation_model.
column_mapping(c) ==
    CASE c = "n" -> "nitrogen"
      [] c = "p" -> "phosphorus"
      [] c = "k" -> "potassium"
      [] c = "temp" -> "temperature"
      [] c = "hum" -> "humidity"
      [] c = "rain" -> "rainfall"
      [] OTHER -> c

\* ml_models.py:91-97: the crop names np.random.choice draws from, in source order.
synthetic_crops ==
    <<"rice", "wheat", "maize", "chickpea", "kidneybeans",
      "pigeonpeas", "mothbeans", "mungbean", "blackgram", "lentil",
      "pomegranate", "banana", "mango", "grapes", "watermelon",
      "muskmelon", "apple", "orange", "papaya", "coconut",
      "cotton", "jute", "coffee">>

\* ml_models.py:83: for i in range(50)
SyntheticRows == 50

\* Python's order on the crop names that occur (sorted() on str): the names in
\* ascending lexicographic order.  "sugarcane" is the one crop of the page's
\* catalogue that np.random.choice never draws.
CropOrder ==
    <<"apple", "banana", "blackgram", "chickpea", "coconut", "coffee", "cotton",
      "grapes", "jute", "kidneybeans", "lentil", "maize", "mango", "mothbeans",
      "mungbean", "muskmelon", "orange", "papaya", "pigeonpeas", "pomegranate",
      "rice", "sugarcane", "watermelon", "wheat">>

CropRank(c) == CHOOSE i \in 1..Len(CropOrder) : CropOrder[i] = c

\* sorted(set of crop names) as a list.
SortedCrops(S) == SelectSeq(CropOrder, LAMBDA c : c \in S)

\* ml_models.py:170-211: ideal_params, (min, max) per parameter, fixed point.
HasIdeal(crop) == crop \in {"rice", "wheat", "maize", "chickpea", "cotton"}

ideal_params(crop) ==
    CASE crop = "rice" ->
           [nitrogen |-> <<8000, 12000>>, phosphorus |-> <<4000, 6000>>,
            potassium |-> <<4000, 6000>>, temperature |-> <<2200, 3200>>,
            humidity |-> <<7000, 9000>>, ph |-> <<550, 650>>]
      [] crop = "wheat" ->
           [nitrogen |-> <<10000, 14000>>, phosphorus |-> <<5000, 8000>>,
            potassium |-> <<4000, 7000>>, temperature |-> <<1500, 2500>>,
            humidity |-> <<5000, 7000>>, ph |-> <<600, 700>>]
      [] crop = "maize" ->
           [nitrogen |-> <<8000, 12000>>, phosphorus |-> <<4000, 8000>>,
            potassium |-> <<3000, 6000>>, temperature |-> <<2000, 3000>>,
            humidity |-> <<5000, 8000>>, ph |-> <<580, 680>>]
      [] crop = "chickpea" ->
           [nitrogen |-> <<4000, 6000>>, phosphorus |-> <<6000, 9000>>,
            potassium |-> <<2000, 4000>>, temperature |-> <<1500, 3000>>,
            humidity |-> <<4000, 6000>>, ph |-> <<550, 700>>]
      [] crop = "cotton" ->
           [nitrogen |-> <<8000, 12000>>, phosphorus |-> <<4000, 6000>>,
            potassium |-> <<4000, 8000>>, temperature |-> <<2000, 3500>>,
            humidity |-> <<6000, 7000>>, ph |-> <<580, 700>>]

----------------------------------------------------------------------------
(* Tables (pandas DataFrame as the program uses it)                        *)
(*   cols : the column names, in order                                     *)
(*   rows : the rows, each a tuple of cells aligned with cols              *)
(* A cell is a record: k = "num" (v the fixed-point value), k = "str" (s   *)
(* the text; a column pd.to_numeric could not convert keeps its strings),  *)
(* or k = "nan" (a missing value).                                         *)

Num(v) == [k |-> "num", v |-> v, s |-> ""]
Str(t) == [k |-> "str", v |-> 0, s |-> t]
NaN == [k |-> "nan", v |-> 0, s |-> ""]

HasCol(t, c) == \E i \in 1..Len(t.cols) : t.cols[i] = c
\* The number of columns named c (a rename can produce a name twice).
ColCount(t, c) == Cardinality({i \in 1..Len(t.cols) : t.cols[i] = c})
ColIdx(t, c) == CHOOSE i \in 1..Len(t.cols) : t.cols[i] = c
Cell(t, r, c) == t.rows[r][ColIdx(t, c)]
NRows(t) == Len(t.rows)

\* df.rename(columns={k: v for k, v in column_mapping.items() if k in df.columns}):
\* a new table, the caller's object is left alone.
Rename(t) ==
    [cols |-> Tuple([i \in 1..Len(t.cols) |-> column_mapping(t.cols[i])], Len(t.cols)),
     rows |-> t.rows]

\* df[col] = values (adds the column at the end, or overwrites it).
WithColumn(t, c, values) ==
    IF HasCol(t, c)
    THEN [cols |-> t.cols,
          rows |-> Tuple([r \in 1..NRows(t) |-> [t.rows[r] EXCEPT ![ColIdx(t, c)] = values[r]]],
                         NRows(t))]
    ELSE [cols |-> Append(t.cols, c),
          rows |-> Tuple([r \in 1..NRows(t) |-> Append(t.rows[r], values[r])], NRows(t))]

\* y.unique() as a set of label texts (the label cells of the tables considered
\* are crop names or missing).
LabelOf(cell) == IF cell.k = "nan" THEN "None" ELSE cell.s
Labels(t, c) == {LabelOf(Cell(t, r, c)) : r \in 1..NRows(t)}
LabelCount(t, c, l) == Cardinality({r \in 1..NRows(t) : LabelOf(Cell(t, r, c)) = l})

\* y.value_counts() as a set of <<label, count>> pairs, and the rows a set of
\* labels covers.
LabelCounts(t, c) == {<<l, LabelCount(t, c, l)>> : l \in Labels(t, c)}

RECURSIVE Covered(_, _)
Covered(counts, S) ==
    IF counts = {} THEN 0
    ELSE LET p == CHOOSE q \in counts : TRUE
         IN  (IF p[1] \in S THEN p[2] ELSE 0) + Covered(counts \ {p}, S)

\* row[c] for a column name the table carries twice is a Series, not a scalar.
Series == [k |-> "series", v |-> 0, s |-> ""]

\* The row r of t as the mapping assign_crop reads (row['ph'], ...).
RowOf(t, r) ==
    [f \in Range(required_features) |-> IF ColCount(t, f) > 1 THEN Series ELSE Cell(t, r, f)]

\* The column names of df[required_features]: per feature, in the order of
\* required_features, every column of that name.
FeatureColumns(t) ==
    LET copies(i) == [j \in 1..ColCount(t, required_features[i]) |-> required_features[i]]
    IN  copies(1) \o copies(2) \o copies(3) \o copies(4) \o copies(5) \o copies(6)

----------------------------------------------------------------------------
(* train_crop_recommendation_model, ml_models.py:11-131 *)

\* A Python comparison of a cell with a number: a str operand raises TypeError,
\* a NaN operand compares False; the comparison of a Series is a Series, whose
\* truth value ("and", "if") raises ValueError.
Bad(cell) == cell.k \in {"str", "series"}
LT(cell, c) == cell.k = "num" /\ cell.v < c
GT(cell, c) == cell.k = "num" /\ cell.v > c

TypeError == "TypeError"

\* The rules with the wheat rule tried before the maize rule.
AssignCropWheatBeforeMaize(row) ==
    LET rule6 == "chickpea"
        rule5 == IF Bad(row["humidity"]) THEN TypeError
                 ELSE IF GT(row["humidity"], 8000)
                      THEN IF Bad(row["temperature"]) THEN TypeError
                           ELSE IF GT(row["temperature"], 2500) THEN "banana" ELSE rule6
                      ELSE rule6
        rule4 == IF Bad(row["nitrogen"]) THEN TypeError
                 ELSE IF GT(row["nitrogen"], 5000)
                      THEN IF Bad(row["potassium"]) THEN TypeError
                           ELSE IF GT(row["potassium"], 5000) THEN "maize" ELSE rule5
                      ELSE rule5
        rule3 == IF Bad(row["ph"]) THEN TypeError
                 ELSE IF GT(row["ph"], 700)
                      THEN IF Bad(row["temperature"]) THEN TypeError
                           ELSE IF LT(row["temperature"], 2000) THEN "wheat" ELSE rule4
                      ELSE rule4
        rule2 == IF Bad(row["temperature"]) THEN TypeError
                 ELSE IF GT(row["temperature"], 3000)
                      THEN IF Bad(row["humidity"]) THEN TypeError
                           ELSE IF LT(row["humidity"], 5000) THEN "cotton" ELSE rule3
                      ELSE rule3
    IN  IF Bad(row["ph"]) THEN TypeError
        ELSE IF LT(row["ph"], 600)
             THEN IF Bad(row["humidity"]) THEN TypeError
                  ELSE IF GT(row["humidity"], 7000) THEN "rice" ELSE rule2
             ELSE rule2

\* ml_models.py:50-63.  The result is the label, or TypeError (standing for the
\* exception raised) when a comparison that Python's left-to-right, short-circuit
\* evaluation reaches has a str or Series operand.
assign_crop(row) ==
    LET rule6 == "chickpea"
        rule5 == IF Bad(row["humidity"]) THEN TypeError
                 ELSE IF GT(row["humidity"], 8000)
                      THEN IF Bad(row["temperature"]) THEN TypeError
                           ELSE IF GT(row["temperature"], 2500) THEN "banana" ELSE rule6
                      ELSE rule6
        rule4 == IF Bad(row["ph"]) THEN TypeError
                 ELSE IF GT(row["ph"], 700)
                      THEN IF Bad(row["temperature"]) THEN TypeError
                           ELSE IF LT(row["temperature"], 2000) THEN "wheat" ELSE rule5
                      ELSE rule5
        rule3 == IF Bad(row["nitrogen"]) THEN TypeError
                 ELSE IF GT(row["nitrogen"], 5000)
                      THEN IF Bad(row["potassium"]) THEN TypeError
                           ELSE IF GT(row["potassium"], 5000) THEN "maize" ELSE rule4
                      ELSE rule4
        rule2 == IF Bad(row["temperature"]) THEN TypeError
                 ELSE IF GT(row["temperature"], 3000)
                      THEN IF Bad(row["humidity"]) THEN TypeError
                           ELSE IF LT(row["humidity"], 5000) THEN "cotton" ELSE rule3
                      ELSE rule3
    IN  IF Bad(row["ph"]) THEN TypeError
        ELSE IF LT(row["ph"], 600)
             THEN IF Bad(row["humidity"]) THEN TypeError
                  ELSE IF GT(row["humidity"], 7000) THEN "rice" ELSE rule2
             ELSE rule2

\* ml_models.py:82-98: one outcome of the unseeded np.random draws of the batch.
\* An outcome rng = [start, spread, feat] stands for the draws in which row i
\* (1..50) gets the crop synthetic_crops[start + (i-1) mod spread] (cyclically)
\* and the feature values feat; the crop column is named crop_column, every
\* other column of df is missing (NaN) in the appended rows (pd.concat).
SyntheticCrop(rng, i) ==
    synthetic_crops[((rng.start - 1 + ((i - 1) % rng.spread)) % Len(synthetic_crops)) + 1]

SyntheticRow(t, crop_column, rng, i) ==
    Tuple([j \in 1..Len(t.cols) |->
              IF t.cols[j] = crop_column THEN Str(SyntheticCrop(rng, i))
              ELSE IF t.cols[j] \in Range(required_features) THEN Num(rng.feat[t.cols[j]])
              ELSE NaN],
          Len(t.cols))

\* ml_models.py:100-102: pd.concat([df, synthetic_df], ignore_index=True)
WithSyntheticBatch(t, crop_column, rng) ==
    [cols |-> t.cols,
     rows |-> t.rows \o Tuple([i \in 1..SyntheticRows |-> SyntheticRow(t, crop_column, rng, i)],
                               SyntheticRows)]

\* ml_models.py:112-113: StandardScaler().fit(X): per feature the mean and the
\* standard deviation (population), a zero deviation replaced by 1.0; missing
\* values are left out of both.  Fixed point.
ColumnValues(t, f) ==
    LET idx == SelectSeq(Tuple([r \in 1..NRows(t) |-> r], NRows(t)),
                         LAMBDA r : Cell(t, r, f).k = "num")
    IN  Tuple([i \in 1..Len(idx) |-> Cell(t, idx[i], f).v], Len(idx))

MeanOf(xs) == IF xs = << >> THEN 0 ELSE SumSeq(xs) \div Len(xs)

ScaleOf(xs) ==
    LET m == MeanOf(xs)
        var == IF xs = << >> THEN 0
               ELSE SumSeq([i \in 1..Len(xs) |-> ((xs[i] - m) * (xs[i] - m)) \div Len(xs)])
        sd == ISqrt(var)
    IN  IF sd = 0 THEN FP ELSE sd

FitScaler(t) ==
    [f \in Range(required_features) |->
        [mean |-> MeanOf(ColumnValues(t, f)), scale |-> ScaleOf(ColumnValues(t, f))]]

\* scaler.transform(values): (x - mean) / scale per feature, in feature order.
Standardize(sc, values) ==
    [i \in 1..Len(required_features) |->
        ((values[i] - sc[required_features[i]].mean) * FP) \div sc[required_features[i]].scale]

\* The label column holds a missing value next to crop names: model.fit, and at
\* the latest sorted(unique_crops.tolist()) on line 127, raise TypeError (None
\* and str do not compare).
HasMissingLabel(t, crop_column) ==
    \E r \in 1..NRows(t) : Cell(t, r, crop_column).k = "nan"

\* X holds a value sklearn cannot convert to float (ValueError in fit_transform).
HasTextFeature(t) ==
    \E r \in 1..NRows(t) : \E f \in Range(required_features) : Cell(t, r, f).k = "str"

\* X holds a missing value (NaN).  StandardScaler leaves it out and passes it
\* on; whether the forest takes it depends on the scikit-learn release
\* installed: model.fit / model.predict (lines 120, 123) either raise ValueError
\* ("Input X contains NaN") or work with the value.
HasMissingFeature(t) ==
    \E r \in 1..NRows(t) : \E f \in Range(required_features) : Cell(t, r, f).k = "nan"

\* The forest's answers to a NaN in X that the installed release can give.
NanOutcomes(t) == IF HasMissingFeature(t) THEN BOOLEAN ELSE {TRUE}

\* ml_models.py:116: train_test_split(X_scaled, y, test_size=0.2, random_state=42).
NTest(n) == CeilDiv(n, 5)
NTrain(n) == n - NTest(n)

\* The label sets the held-out rows can swallow whole.  The split is a fixed
\* permutation of the row numbers that depends on the row count only; which
\* labels sit on the held-out row numbers is up to the table.  E is a possible
\* set of labels all of whose rows are held out iff its rows fit into the test
\* part and the test part can be filled up without exhausting another label.
HeldOutLabelSets(t, crop_column) ==
    LET U == Labels(t, crop_column)
        counts == LabelCounts(t, crop_column)
        cnt(S) == Covered(counts, S)
    IN  {E \in SUBSET U :
            /\ cnt(E) <= NTest(NRows(t))
            /\ NTest(NRows(t)) - cnt(E) <= cnt(U \ E) - Cardinality(U \ E)}

\* The (None, None, None, 0) of ml_models.py:42 and :131.
TrainFailure(local_df, sc) ==
    [exc |-> "none", model |-> None, features |-> None, crops |-> None, accuracy |-> 0,
     train_df |-> local_df, scaler |-> sc, caller |-> None]

\* ml_models.py:36-106: the local df at the time of the split (rename, rule
\* labels when there is no label column, the synthetic batch when there are fewer
\* than two distinct labels), for a table that gets that far.
LabelColumn(t) == IF HasCol(t, "crop") THEN "crop" ELSE "label"

Labelled(t) ==
    LET renamed == Rename(t)
    IN  IF ~HasCol(renamed, "crop") /\ ~HasCol(renamed, "label")
        THEN WithColumn(renamed, "crop",
                        [r \in 1..NRows(renamed) |-> Str(assign_crop(RowOf(renamed, r)))])
        ELSE renamed

\* The threshold off by one: two labels still count as too few.
NeedsBatchBelowThree(t) == Cardinality(Labels(Labelled(t), LabelColumn(Labelled(t)))) < 3

\* ml_models.py:78-79: len(y.unique()) < 2 (a missing label is one of the values
\* unique() reports).
NeedsBatch(t) == Cardinality(Labels(Labelled(t), LabelColumn(Labelled(t)))) < 2

LocalTable(t, rng) ==
    IF NeedsBatch(t)
    THEN WithSyntheticBatch(Labelled(t), LabelColumn(Labelled(t)), rng)
    ELSE Labelled(t)

\* The missing-feature check without its test: no column is ever reported.
NoMissingFeatures(renamed) == {}

\* ml_models.py:39: the required features that are not among the columns.
missing_features(renamed) == {f \in Range(required_features) : ~HasCol(renamed, f)}

\* The rename done on the caller's frame itself (rename(..., inplace=True)): the
\* local name and the caller's name stay bound to one object.
RenameInPlace(t) == [frame |-> Rename(t), shared |-> TRUE]

\* ml_models.py:36: df = df.rename(columns=...).  rename returns a new frame,
\* to which the local name df is bound from here on; shared tells whether the
\* local name and the caller's name are bound to the same object.
RenameResult(t) == [frame |-> Rename(t), shared |-> FALSE]

\* The caller's frame when the call returns.  Line 66 (df['crop'] = ...) writes
\* into the object the local name is bound to; line 102 (df = pd.concat(...))
\* binds the local name to another new frame, so the batch is never written
\* into an object the caller can see.  assigned: line 66 was executed.
CallerFrame(t, assigned) ==
    IF RenameResult(t).shared
    THEN IF assigned THEN Labelled(t) ELSE RenameResult(t).frame
    ELSE t

\* ml_models.py:21-127, the body of the try block.  env is the environment's
\* part: env.rng the random draws of the batch, env.held the labels whose rows
\* are all held out by the split, env.correct the number of held-out rows the
\* fitted forest classifies correctly, env.nan_ok whether the forest takes a
\* missing value.  exc = "escaped" stands for an exception
\* leaving the body.
\* renamed is the frame of line 36, raises tells whether assign_crop raises on
\* one of its rows, full is the local df at the time of the split and sc the
\* scaler fitted on it.
TrainSteps(env, renamed, raises, full, sc) ==
    LET unlabelled == ~HasCol(renamed, "crop") /\ ~HasCol(renamed, "label")
        crop_column == LabelColumn(full)
        unique_crops == Labels(full, crop_column)
    IN  IF missing_features(renamed) # {} THEN TrainFailure(None, None)
        \* row['ph'] (line 52 ff.), df[required_features] (line 74): KeyError
        ELSE IF \E f \in Range(required_features) : ~HasCol(renamed, f)
             THEN [TrainFailure(None, None) EXCEPT !.exc = "escaped"]
        ELSE IF unlabelled /\ raises
             THEN [TrainFailure(None, None) EXCEPT !.exc = "escaped"]
        ELSE IF HasTextFeature(full)
             THEN [TrainFailure(Some(full), None) EXCEPT !.exc = "escaped"]
        ELSE IF NTrain(NRows(full)) = 0 \/ HasMissingLabel(full, crop_column)
             THEN [TrainFailure(Some(full), Some(sc)) EXCEPT !.exc = "escaped"]
        ELSE IF HasMissingFeature(full) /\ ~env.nan_ok
             THEN [TrainFailure(Some(full), Some(sc)) EXCEPT !.exc = "escaped"]
        ELSE [exc |-> "none",
              model |-> Some([classes |-> SortedCrops(unique_crops \ env.held),
                              n_features_in |-> Len(FeatureColumns(full)),
                              fitted_on |-> FeatureColumns(full)]),
              features |-> Some(required_features),
              crops |-> Some(SortedCrops(unique_crops)),
              accuracy |-> (env.correct * 100 * FP) \div NTest(NRows(full)),
              train_df |-> Some(full),
              scaler |-> Some(sc),
              caller |-> None]

\* Line 66 was executed: the table has the features, no label column, and
\* assign_crop raised on no row.
Assigned(renamed, raises) ==
    /\ \A f \in Range(required_features) : HasCol(renamed, f)
    /\ ~HasCol(renamed, "crop") /\ ~HasCol(renamed, "label")
    /\ ~raises

Raises(renamed) ==
    \E r \in 1..NRows(renamed) : assign_crop(RowOf(renamed, r)) = TypeError

WithCaller(t, result, raises) ==
    [result EXCEPT !.caller = Some(CallerFrame(t, Assigned(Rename(t), raises)))]

TrainOn(t, env, raises, full) ==
    WithCaller(t, TrainSteps(env, Rename(t), raises, full, FitScaler(full)), raises)

TrainBody(t, env) == TrainOn(t, env, Raises(Rename(t)), LocalTable(t, env.rng))

\* The function without its try/except: what the body does is what the caller gets.
TrainWithoutHandler(t, env) == TrainBody(t, env)

\* ml_models.py:21, 129-131: try ... except Exception: return None, None, None, 0
train_crop_recommendation_model(t, env) ==
    LET body == TrainBody(t, env)
    IN  IF body.exc = "escaped"
        THEN [TrainFailure(body.train_df, body.scaler) EXCEPT !.exc = "caught",
                                                              !.caller = body.caller]
        ELSE body

----------------------------------------------------------------------------
(* predict_crop, ml_models.py:133-262 *)

\* A descending sort that reverses ties: x goes behind the entries with an
\* equal key.
InsertDescTiesLast(x, sorted) ==
    LET before == {i \in 1..Len(sorted) : \A j \in 1..i : sorted[j][2] >= x[2]}
        at == Cardinality(before)
    IN  SubSeq(sorted, 1, at) \o <<x>> \o SubSeq(sorted, at + 1, Len(sorted))

\* ml_models.py:159: list.sort(key=lambda x: x[1], reverse=True).  Python's sort
\* is stable, also with reverse=True: entries with equal keys keep their order.
\* An entry is <<crop, probability>>; x, the earlier entry, goes ahead of the
\* entries with an equal key.
InsertDescTiesFirst(x, sorted) ==
    LET before == {i \in 1..Len(sorted) : \A j \in 1..i : sorted[j][2] > x[2]}
        at == Cardinality(before)
    IN  SubSeq(sorted, 1, at) \o <<x>> \o SubSeq(sorted, at + 1, Len(sorted))

RECURSIVE SortByProbabilityDesc(_)
SortByProbabilityDesc(s) ==
    IF s = << >> THEN << >>
    ELSE InsertDescTiesFirst(Head(s), SortByProbabilityDesc(Tail(s)))

\* ml_models.py:162: the length of the slice.
TopN == 5

\* The ranked list without the slice.
TopUncapped(s) == s

\* ml_models.py:162-163: crop_probs[:5].
Top(s) == SubSeq(s, 1, Min(TopN, Len(s)))

\* The match percentage without max(0, ...).
RawMatchUnfloored(distance, range_size) ==
    RoundHalfEven(100 * range_size - 200 * distance, range_size)

\* ml_models.py:223-238: the match percentage of one parameter, an integer.
\* 100 - (distance / (range_size / 2)) * 100 is the rational
\* (100 * range_size - 200 * distance) / range_size; max(0, ...) and round.
RawMatch(distance, range_size) ==
    LET num == 100 * range_size - 200 * distance
    IN  IF num <= 0 THEN 0 ELSE RoundHalfEven(num, range_size)

\* The distance above the range measured from min_val.
match_percent_from_min(cur_val, min_val, max_val) ==
    IF cur_val < min_val THEN Min(100, RawMatch(min_val - cur_val, max_val - min_val))
    ELSE IF cur_val > max_val THEN Min(100, RawMatch(cur_val - min_val, max_val - min_val))
    ELSE 100

match_percent(cur_val, min_val, max_val) ==
    IF cur_val < min_val THEN Min(100, RawMatch(min_val - cur_val, max_val - min_val))
    ELSE IF cur_val > max_val THEN Min(100, RawMatch(cur_val - max_val, max_val - min_val))
    ELSE 100

\* The 'Unknown' placeholder of ml_models.py:253, 255.
Unknown == None

\* The detail with the mean cut to an integer instead of rounded.
MatchDetailTruncated(crop, feats, obs) ==
    LET params == {f \in Range(feats) : f \in DOMAIN ideal_params(crop)}
        matches == [f \in params |->
                       match_percent(obs[f], ideal_params(crop)[f][1], ideal_params(crop)[f][2])]
        total == SumSeq([i \in 1..Len(feats) |->
                            IF feats[i] \in params THEN matches[feats[i]] ELSE 0])
    IN  [matches |-> [f \in params |-> Some(matches[f])],
         overall |-> total \div Cardinality(params),
         ideal_ranges |-> [f \in params |-> Some(ideal_params(crop)[f])]]

\* ml_models.py:216-247: the detail of a crop that has ideal ranges: a match
\* per feature that has a range, and round(sum(matches) / len(matches)).
MatchDetail(crop, feats, obs) ==
    LET params == {f \in Range(feats) : f \in DOMAIN ideal_params(crop)}
        matches == [f \in params |->
                       match_percent(obs[f], ideal_params(crop)[f][1], ideal_params(crop)[f][2])]
        total == SumSeq([i \in 1..Len(feats) |->
                            IF feats[i] \in params THEN matches[feats[i]] ELSE 0])
    IN  [matches |-> [f \in params |-> Some(matches[f])],
         overall |-> RoundHalfEven(total, Cardinality(params)),
         ideal_ranges |-> [f \in params |-> Some(ideal_params(crop)[f])]]

\* The placeholder detail with int(prob) for round(prob).
UnknownDetailTruncated(feats, prob) ==
    [matches |-> [f \in Range(feats) |-> Unknown],
     overall |-> prob \div FP,
     ideal_ranges |-> [f \in Range(feats) |-> Unknown]]

\* ml_models.py:252-256: the detail of a crop without ideal ranges; prob is the
\* fixed-point percentage, round(prob) the nearest integer (half to even).
UnknownDetail(feats, prob) ==
    [matches |-> [f \in Range(feats) |-> Unknown],
     overall |-> RoundHalfEven(prob, FP),
     ideal_ranges |-> [f \in Range(feats) |-> Unknown]]

\* The ([], [], {}) of ml_models.py:262.
EmptyDict == [c \in {} |-> None]

PredictFailure(x) ==
    [exc |-> "none", recommended_crops |-> << >>, probability_scores |-> << >>,
     parameter_match_info |-> EmptyDict, crop_probs |-> << >>, X_input |-> x]

\* model.predict_proba(X)[0] * 100: one percentage per class of the fitted
\* forest, in the order of its classes.  votes[i] of the Trees trees vote
\* for class i.
Percentages(votes, trees) == [i \in 1..Len(votes) |-> (votes[i] * 100 * FP) \div trees]

\* The second loop left out: no crop gets a placeholder detail.
NoUnknownCrops(ranked, known) == {}

\* ml_models.py:250-251: the crops of crop_probs[:5] that have no detail yet.
UnknownCrops(ranked, known) == {e[1] : e \in Range(Top(ranked))} \ known

\* ml_models.py:146-258, the body of the try block.  m, feats, crop_list are the
\* (optional) model, features and crops arguments, obs the input_data mapping,
\* probabilities what predict_proba answers for this input.
PredictBody(m, feats, crop_list, obs, probabilities) ==
    LET input_values == [i \in 1..Len(Val(feats)) |-> obs[Val(feats)[i]]]
        zipped == [i \in 1..Min(Len(Val(crop_list)), Len(probabilities)) |->
                      <<Val(crop_list)[i], probabilities[i]>>]
        ranked == SortByProbabilityDesc(zipped)
        top == Top(ranked)
        rec == [i \in 1..Len(top) |-> top[i][1]]
        detailed == {c \in Range(rec) :
                        HasIdeal(c) /\ \E f \in Range(Val(feats)) : f \in DOMAIN ideal_params(c)}
        probOf(c) == (CHOOSE e \in Range(top) : e[1] = c)[2]
    IN  IF IsNone(feats) THEN [PredictFailure(None) EXCEPT !.exc = "escaped"]
        ELSE IF \E f \in Range(Val(feats)) : f \notin DOMAIN obs
             THEN [PredictFailure(None) EXCEPT !.exc = "escaped"]
        ELSE IF IsNone(m) \/ IsNone(crop_list)
             THEN [PredictFailure(Some(input_values)) EXCEPT !.exc = "escaped"]
        ELSE IF Len(input_values) # Val(m).n_features_in
             THEN [PredictFailure(Some(input_values)) EXCEPT !.exc = "escaped"]
        ELSE [exc |-> "none",
              recommended_crops |-> rec,
              probability_scores |-> [i \in 1..Len(top) |-> top[i][2]],
              parameter_match_info |->
                  [c \in detailed \cup UnknownCrops(ranked, detailed) |->
                      IF c \in detailed THEN MatchDetail(c, Val(feats), obs)
                      ELSE UnknownDetail(Val(feats), probOf(c))],
              crop_probs |-> ranked,
              X_input |-> Some(input_values)]

\* ml_models.py:146, 260-262: try ... except Exception: return [], [], {}
predict_crop(m, feats, crop_list, obs, probabilities) ==
    LET body == PredictBody(m, feats, crop_list, obs, probabilities)
    IN  IF body.exc = "escaped"
        THEN [PredictFailure(body.X_input) EXCEPT !.exc = "caught"]
        ELSE body

----------------------------------------------------------------------------
(* Inputs: the tables and observations the model runs the program on *)

MaxRows == 2        \* rows of an input table
Trees == 3          \* trees of the forest (n_estimators, scaled down): vote granularity
MaxSpread == 6      \* distinct crops the 50 random draws of a batch can hit

Reading(n, p, k, t, h, ph) ==
    [nitrogen |-> n, phosphorus |-> p, potassium |-> k,
     temperature |-> t, humidity |-> h, ph |-> ph]

\* Sensor readings; under the labelling rules: rice, chickpea.
FeaturePool ==
    {Reading(9000, 4200, 4300, 2400, 8200, 550),
     Reading(5000, 3000, 3000, 2500, 6000, 650)}

DefaultReading == Reading(5000, 3000, 3000, 2500, 6000, 650)

LabelPool == {"rice", "sugarcane"}

\* The text of a timestamp cell; v is its rank in string order.
Stamp(i) == [k |-> "str", v |-> i, s |-> "timestamp"]

CanonicalColumns ==
    <<"timestamp", "nitrogen", "phosphorus", "potassium", "temperature", "humidity", "ph">>
AliasColumns == <<"timestamp", "n", "p", "k", "temp", "hum", "ph">>
NoPhColumns == <<"timestamp", "nitrogen", "phosphorus", "potassium", "temperature", "humidity">>
LabelledColumns ==
    <<"timestamp", "nitrogen", "phosphorus", "potassium", "temperature", "humidity", "ph", "crop">>

\* The reading a column of a sheet holds, by the column's name.
Canonical(c) ==
    IF c \in {"timestamp", "ph", "crop"} THEN c
    ELSE IF c = "TEMP" THEN "temperature"
    ELSE column_mapping(c)

\* A rainfall reading (mm), fixed point.
Rainfall == 200 * FP

\* A table of the given columns whose i-th row holds readings[i] (and labels[i]
\* in a crop column, "" for an empty cell), stamped in order of arrival.
MakeTable(cols, readings, labels) ==
    [cols |-> cols,
     rows |-> Tuple([r \in 1..Len(readings) |->
                       Tuple([j \in 1..Len(cols) |->
                                 IF cols[j] = "timestamp" THEN Stamp(r)
                                 ELSE IF cols[j] = "crop"
                                      THEN IF labels[r] = "" THEN NaN ELSE Str(labels[r])
                                 ELSE IF cols[j] = "rain" THEN Num(Rainfall)
                                 ELSE Num(readings[r][Canonical(cols[j])])],
                             Len(cols))],
                    Len(readings))]

SeqsUpTo(S, n) == UNION {[1..m -> S] : m \in 1..n}

NoLabels == [i \in 1..(MaxRows + 1) |-> ""]

Defaults(n) == [i \in 1..n |-> DefaultReading]

\* Sheets without a crop column: every sequence of readings under the canonical
\* names, the default reading under the alias names and without ph.
UnlabelledTables ==
    {MakeTable(CanonicalColumns, readings, NoLabels) : readings \in SeqsUpTo(FeaturePool, MaxRows)}
    \cup {MakeTable(cols, Defaults(n), NoLabels) : cols \in {AliasColumns, NoPhColumns}, n \in 1..MaxRows}

\* Sheets with a crop column; the crop cell of a row may be empty.
LabelledTables ==
    {MakeTable(LabelledColumns, Defaults(Len(labels)), labels) :
        labels \in SeqsUpTo(LabelPool \cup {""}, MaxRows)}

\* A column holding a cell pd.to_numeric cannot convert stays text as a whole
\* (sheets_integration.py:160-165).
AsText(t, c) ==
    [cols |-> t.cols,
     rows |-> Tuple([r \in 1..NRows(t) |->
                       Tuple([j \in 1..Len(t.cols) |->
                                 IF t.cols[j] = c THEN Str("n/a") ELSE t.rows[r][j]],
                             Len(t.cols))],
                    NRows(t))]

TextTables ==
    {AsText(MakeTable(CanonicalColumns, Defaults(n), NoLabels), c) :
        n \in 1..MaxRows, c \in {"ph", "humidity"}}

\* Readings that meet the labelling rules: cotton; maize; wheat; banana; rice,
\* maize and banana at once; maize and wheat at once.
RulePool ==
    {Reading(4000, 3000, 3000, 3500, 4000, 650),
     Reading(6000, 3000, 6000, 2500, 6000, 650),
     Reading(4000, 3000, 3000, 1500, 6000, 750),
     Reading(4000, 3000, 3000, 2600, 8500, 650),
     Reading(9000, 4200, 6000, 2600, 8500, 550),
     Reading(6000, 3000, 6000, 1500, 6000, 750)}

\* Two-row sheets without a crop column: a reading of RulePool, then the
\* default reading.
RuleTables == {MakeTable(CanonicalColumns, <<r, DefaultReading>>, NoLabels) : r \in RulePool}

\* Sheets whose header differs from the canonical one: an extra rain column,
\* TEMP for temperature, and both n and nitrogen (with and without a crop
\* column).
RainColumns ==
    <<"timestamp", "nitrogen", "phosphorus", "potassium", "temperature", "humidity", "ph", "rain">>
UpperCaseColumns ==
    <<"timestamp", "nitrogen", "phosphorus", "potassium", "TEMP", "humidity", "ph">>
BothNamesColumns ==
    <<"timestamp", "n", "nitrogen", "phosphorus", "potassium", "temperature", "humidity", "ph">>

Mixed == <<Reading(9000, 4200, 4300, 2400, 8200, 550), DefaultReading>>

HeaderTables ==
    {MakeTable(RainColumns, Mixed, NoLabels),
     MakeTable(UpperCaseColumns, Mixed, NoLabels),
     MakeTable(BothNamesColumns, Mixed, NoLabels),
     MakeTable(Append(BothNamesColumns, "crop"), Mixed, <<"rice", "sugarcane">>)}

\* A sheet whose row r is short, holding the timestamp only: the cells that
\* get_sheet_data pads (sheets_integration.py:133-135) become missing values of
\* numeric columns.
WithMissing(t, r) ==
    [cols |-> t.cols,
     rows |-> [t.rows EXCEPT ![r] =
                  Tuple([j \in 1..Len(t.cols) |->
                            IF t.cols[j] = "timestamp" THEN t.rows[r][j] ELSE NaN],
                        Len(t.cols))]]

MissingTables == {WithMissing(MakeTable(CanonicalColumns, Mixed, NoLabels), 2)}

Tables ==
    UnlabelledTables \cup LabelledTables \cup TextTables \cup RuleTables \cup HeaderTables
    \cup MissingTables

\* Observations: one on the boundaries of rice's ranges, one far off every
\* range, one just outside several ranges; one with ph out of its 0-14 domain.
ValidObservations ==
    {Reading(8000, 6000, 4000, 2200, 9000, 550),
     Reading(0, 0, 0, 0, 0, 0),
     Reading(7900, 6300, 4000, 3300, 6900, 540)}

OutOfDomainObservations == {Reading(5000, 3000, 3000, 2500, 6000, 1500)}

\* An observation without the ph field.
IncompleteObservations ==
    {[f \in {"nitrogen", "phosphorus", "potassium", "temperature", "humidity"} |->
         Reading(5000, 3000, 3000, 2500, 6000, 650)[f]]}

Observations == ValidObservations \cup OutOfDomainObservations \cup IncompleteObservations

\* The random draws considered for the synthetic batch.
RngOutcomes ==
    [start : {1}, spread : {1, MaxSpread},
     feat : {Reading(13900, 14400, 20400, 4368, 9998, 994)}]

\* The environments of a train call on t.
ReachesSplit(t) ==
    /\ \A f \in Range(required_features) : HasCol(Rename(t), f)
    /\ TrainBody(t, [rng |-> CHOOSE g \in RngOutcomes : TRUE, held |-> {}, correct |-> 0, nan_ok |-> TRUE]).exc = "none"

\* The environments of a call that draws g and splits the local table full.
SplitEnvs(g, full, counts) ==
    UNION {{[rng |-> g, held |-> E, correct |-> c, nan_ok |-> b] :
               c \in {0, NTest(NRows(full)) - Covered(counts, E)}, b \in NanOutcomes(full)}
           : E \in HeldOutLabelSets(full, LabelColumn(full))}

EnvsOf(g, full) == SplitEnvs(g, full, LabelCounts(full, LabelColumn(full)))

TrainEnvs(t) ==
    IF ReachesSplit(t)
    THEN UNION {EnvsOf(g, LocalTable(t, g))
                : g \in IF NeedsBatch(t) THEN RngOutcomes ELSE {CHOOSE g \in RngOutcomes : TRUE}}
    ELSE {[rng |-> CHOOSE g \in RngOutcomes : TRUE, held |-> {}, correct |-> 0, nan_ok |-> TRUE]}

\* What predict_proba can answer for a forest with n classes: the votes of the
\* trees, one count per class.
RECURSIVE VoteVectors(_, _)
VoteVectors(n, total) ==
    IF n = 0 THEN IF total = 0 THEN {<< >>} ELSE {}
    ELSE UNION {{<<v>> \o rest : rest \in VoteVectors(n - 1, total - v)} : v \in 0..total}

ProbaOutcomes(m) ==
    IF IsNone(m) THEN {<< >>}
    ELSE {Percentages(v, Trees) : v \in VoteVectors(Len(Val(m).classes), Trees)}

----------------------------------------------------------------------------
(* The recommendation page, pages/3_Crop_Recommendation.py:25-605: one run *)
(* of the script, for a configured session whose sheet has data.           *)

\* 3_Crop_Recommendation.py:41-50: the page's own alias table (no "rain").
PageRename(t) ==
    [cols |-> Tuple([i \in 1..Len(t.cols) |->
                        IF t.cols[i] = "rain" THEN "rain" ELSE column_mapping(t.cols[i])],
                    Len(t.cols)),
     rows |-> t.rows]

\* 3_Crop_Recommendation.py:53
PageMissingFeatures(t) == {f \in Range(required_features) : ~HasCol(PageRename(t), f)}

\* 3_Crop_Recommendation.py:104: df[feature].mean() raises on a text column.
MeansComputable(t) == ~HasTextFeature(PageRename(t))

\* 3_Crop_Recommendation.py:112: the row with the greatest timestamp.
LatestRow(t) ==
    CHOOSE r \in 1..NRows(t) :
        \A q \in 1..NRows(t) : Cell(t, q, "timestamp").v <= Cell(t, r, "timestamp").v

\* 3_Crop_Recommendation.py:118-148: the upper limits of the six number inputs
\* (the lower limits are 0), fixed point.
InputMax(f) ==
    CASE f \in {"nitrogen", "phosphorus", "potassium"} -> 200 * FP
      [] f = "temperature" -> 50 * FP
      [] f = "humidity" -> 100 * FP
      [] f = "ph" -> 14 * FP

\* 3_Crop_Recommendation.py:112-148 run to the end: the table has a timestamp
\* column (else KeyError), and for each of the six inputs the latest row has the
\* column (else KeyError) once (else latest_row[c] is a Series and int() raises
\* TypeError), a number in it (else int()/float() raise ValueError) and the
\* number lies within the input's limits (else number_input raises).
FormRenders(t) ==
    LET u == PageRename(t)
    IN  /\ HasCol(u, "timestamp")
        /\ \A f \in Range(required_features) :
              /\ HasCol(u, f)
              /\ ColCount(u, f) = 1
              /\ Cell(u, LatestRow(u), f).k = "num"
              /\ Cell(u, LatestRow(u), f).v >= 0
              /\ Cell(u, LatestRow(u), f).v <= InputMax(f)

\* What the form can hold when the button is pressed.
FormValues == {o \in ValidObservations : \A f \in Range(required_features) : o[f] <= InputMax(f)}

NoPage ==
    [ran |-> FALSE, clicked |-> FALSE, missing_features |-> {}, trained |-> FALSE,
     success_reported |-> FALSE, has_model |-> FALSE, form_shown |-> FALSE,
     predict_called |-> FALSE, predict_without_model |-> FALSE,
     shown |-> "nothing", recommendations |-> << >>, error_shown |-> FALSE]

\* 3_Crop_Recommendation.py:434-452: the no-model branch's recommendations, one
\* message for the ph bucket and one for the temperature bucket of the form's
\* values.
NoModelRecommendations(obs) ==
    << IF obs["ph"] < 550 THEN "acidic soil: Blueberries, Potatoes, Sweet Potatoes"
       ELSE IF obs["ph"] <= 650 THEN "slightly acidic soil: Strawberries, Corn, Beans, Rice"
       ELSE IF obs["ph"] <= 750 THEN "neutral soil: Wheat, Barley, Sunflowers, Cucumber"
       ELSE "alkaline soil: Asparagus, Beets, Cabbage",
       IF obs["temperature"] < 1500 THEN "cool temperatures: Spinach, Lettuce, Kale, Peas"
       ELSE IF obs["temperature"] <= 2500
            THEN "moderate temperatures: Wheat, Barley, Carrots, Potatoes"
       ELSE "warm temperatures: Corn, Tomatoes, Peppers, Rice" >>

\* One run of the script.  res is what train_crop_recommendation_model returns
\* for the table (computed now or served by st.cache_resource), pred what
\* predict_crop returns for the form's values obs; clicked tells whether the run
\* was started by the "Get Crop Recommendations" button.  error_shown is the
\* handler of line 603, reached by any exception of the run.
PageRun(t, res, pred, obs, clicked) ==
    LET missing == PageMissingFeatures(t)
        s1 == [NoPage EXCEPT !.ran = TRUE, !.clicked = clicked, !.missing_features = missing]
        \* lines 81-106
        s2 == IF missing # {} THEN s1
              ELSE [s1 EXCEPT !.trained = TRUE, !.success_reported = TRUE]
        s3 == IF missing # {} THEN s2 ELSE [s2 EXCEPT !.has_model = TRUE]
        \* lines 108-148
        s4 == [s3 EXCEPT !.form_shown = TRUE]
        \* lines 151-495
        s5 == IF s4.has_model
              THEN [s4 EXCEPT !.predict_called = TRUE,
                              !.predict_without_model = IsNone(res.model)]
              ELSE [s4 EXCEPT !.shown = "heuristic",
                              !.recommendations = NoModelRecommendations(obs)]
    IN  IF missing = {} /\ ~MeansComputable(t) THEN [s2 EXCEPT !.error_shown = TRUE]
        ELSE IF ~FormRenders(t) THEN [s3 EXCEPT !.error_shown = TRUE]
        ELSE IF ~clicked THEN s4
        ELSE IF ~s4.has_model THEN s5
        \* line 171: st.columns(min(3, len(recommended_crops))) raises for 0 columns
        ELSE IF pred.recommended_crops = << >> THEN [s5 EXCEPT !.error_shown = TRUE]
        ELSE [s5 EXCEPT !.shown = "recommendations"]

----------------------------------------------------------------------------
(* The program: a caller that trains on its table and then asks for a      *)
(* prediction (Spec), and a user on the recommendation page (PageSpec).    *)

\* No second run yet.
NoRerun ==
    [done |-> FALSE, same |-> FALSE, model |-> None, features |-> None, crops |-> None,
     accuracy |-> 0, predicted |-> FALSE,
     recommended_crops |-> << >>, probability_scores |-> << >>]

\* No table.
NoTable == [cols |-> << >>, rows |-> << >>]

\* Nothing has been called through the cache yet.
CacheIdle == cache = {} /\ history = << >>

\* process_historical_data has not been called.
HistIdle == hist_df = NoTable /\ processed_df = None /\ hist_error = FALSE

\* code_zip.py at import, line 98: the thread is about to run, no download has
\* been asked for, and there is no archive yet.
Procs == {"thread", "download"}

FileIds == 1..3

NoFile == [content |-> "free", writers |-> 0, garbled |-> FALSE, stale |-> FALSE]

ZipIdle ==
    /\ zip_path = 0
    /\ zip_files = [i \in FileIds |-> NoFile]
    /\ zip_pc = [p \in Procs |-> IF p = "thread" THEN "update" ELSE "idle"]
    /\ zip_handle = [p \in Procs |-> 0]
    /\ zip_stale = [p \in Procs |-> FALSE]
    /\ download = "none"

\* app.py before its first run: the session state is empty (written here as
\* the values lines 141-145 give it), nothing is saved, nothing is cached.
NoEvent == [kind |-> "none", result |-> "none", service |-> FALSE, tab |-> FALSE,
            write |-> "none", remove |-> "none"]

HomeIdle ==
    /\ google_sheets_configured = FALSE
    /\ spreadsheet_id = ""
    /\ sheet_name = ""
    /\ credentials_json = ""
    /\ show_sheet_url = FALSE
    /\ config_file = None
    /\ auth_cache = None
    /\ home_event = NoEvent

\* No range is being looked at.
MatchIdle ==
    /\ ideal_range = <<0, 0>>
    /\ outside = 0
    /\ match_pair = None

\* get_sheet_data has not been called.
NotCalled == [state |-> "not called", df |-> None]

SheetIdle ==
    /\ sheet = [service |-> FALSE, api_ok |-> FALSE, values |-> << >>]
    /\ sheet_result = NotCalled

AuxIdle == CacheIdle /\ HistIdle /\ ZipIdle /\ HomeIdle /\ MatchIdle /\ SheetIdle

Init ==
    /\ AuxIdle
    /\ df \in Tables
    /\ pc = "start"
    /\ model = None /\ features = None /\ crops = None /\ accuracy = 0
    /\ train_exc = "none" /\ train_df = None /\ scaler = None
    /\ input_data = << >> /\ X_input = None
    /\ recommended_crops = << >> /\ probability_scores = << >>
    /\ parameter_match_info = EmptyDict /\ crop_probs = << >>
    /\ predict_exc = "none"
    /\ page = NoPage
    /\ rerun = NoRerun

\* model, features, crops, accuracy = train_crop_recommendation_model(df)
Train ==
    /\ pc = "start"
    /\ \E env \in TrainEnvs(df) : \E res \in {train_crop_recommendation_model(df, env)} :
              /\ model' = res.model
              /\ features' = res.features
              /\ crops' = res.crops
              /\ accuracy' = res.accuracy
              /\ train_exc' = res.exc
              /\ train_df' = res.train_df
              /\ scaler' = res.scaler
              /\ df' = Val(res.caller)
    /\ pc' = "trained"
    /\ UNCHANGED <<input_data, X_input, recommended_crops, probability_scores,
                   parameter_match_info, crop_probs, predict_exc, page, rerun>>
    /\ UNCHANGED aux

\* recommended_crops, probabilities, parameter_match_info =
\*     predict_crop(model, features, crops, input_data)
Predict ==
    /\ pc = "trained"
    /\ \E obs \in Observations : \E probabilities \in ProbaOutcomes(model) :
          \E res \in {predict_crop(model, features, crops, obs, probabilities)} :
              /\ input_data' = obs
              /\ X_input' = res.X_input
              /\ recommended_crops' = res.recommended_crops
              /\ probability_scores' = res.probability_scores
              /\ parameter_match_info' = res.parameter_match_info
              /\ crop_probs' = res.crop_probs
              /\ predict_exc' = res.exc
    /\ pc' = "predicted"
    /\ UNCHANGED <<df, model, features, crops, accuracy, train_exc, train_df, scaler, page,
                   rerun>>
    /\ UNCHANGED aux

Next == Train \/ Predict

Spec == Init /\ [][Next]_vars

\* The first run of the page script: the table is trained on when no feature
\* is missing.
OpenPage ==
    /\ pc = "start"
    /\ \E env \in TrainEnvs(df) : \E res \in {train_crop_recommendation_model(df, env)} :
          /\ IF PageMissingFeatures(df) = {}
             THEN /\ model' = res.model
                  /\ features' = res.features
                  /\ crops' = res.crops
                  /\ accuracy' = res.accuracy
                  /\ train_exc' = res.exc
                  /\ train_df' = res.train_df
                  /\ scaler' = res.scaler
             ELSE UNCHANGED <<model, features, crops, accuracy, train_exc, train_df, scaler>>
          /\ page' = PageRun(df, res, PredictFailure(None), DefaultReading, FALSE)
    /\ pc' = "page"
    /\ UNCHANGED <<df, input_data, X_input, recommended_crops, probability_scores,
                   parameter_match_info, crop_probs, predict_exc, rerun>>
    /\ UNCHANGED aux

\* The user presses "Get Crop Recommendations": the script runs again with the
\* form's values; st.cache_resource (ml_models.py:10) serves the train result
\* of the unchanged table.  (A further press runs the same script on the same
\* inputs and reaches the states of the first press.)
ClickGetRecommendations ==
    /\ pc = "page"
    /\ page.form_shown
    /\ \E obs \in FormValues : \E probabilities \in ProbaOutcomes(model) :
          \E pred \in {predict_crop(model, features, crops, obs, probabilities)} :
          \E cached \in {[model |-> model]} :
          \E run \in {PageRun(df, cached, pred, obs, TRUE)} :
              /\ page' = run
              /\ IF run.predict_called
                 THEN /\ input_data' = obs
                      /\ X_input' = pred.X_input
                      /\ recommended_crops' = pred.recommended_crops
                      /\ probability_scores' = pred.probability_scores
                      /\ parameter_match_info' = pred.parameter_match_info
                      /\ crop_probs' = pred.crop_probs
                      /\ predict_exc' = pred.exc
                 ELSE /\ input_data' = obs
                      /\ UNCHANGED <<X_input, recommended_crops, probability_scores,
                                     parameter_match_info, crop_probs, predict_exc>>
    /\ pc' = "clicked"
    /\ UNCHANGED <<df, model, features, crops, accuracy, train_exc, train_df, scaler, rerun>>
    /\ UNCHANGED aux

\* The tables the two-run comparison starts from: a one-row sheet without a
\* crop column (one label, so the batch is appended), a two-row sheet whose
\* rows get two labels, and a sheet with a crop column.
TwinTables ==
    {MakeTable(CanonicalColumns, <<Mixed[1]>>, NoLabels),
     MakeTable(CanonicalColumns, Mixed, NoLabels),
     MakeTable(LabelledColumns, Defaults(2), <<"rice", "sugarcane">>)}

TwinInit == Init /\ df \in TwinTables

\* The script run by two independent processes on the same table (nothing is
\* cached between them): the call of train_crop_recommendation_model of the
\* first process (pc = "start") or of the second (pc = "trained").  The random
\* draws of the batch are made anew (np.random is not seeded, ml_models.py:85-97);
\* the split and the forest are seeded (random_state=42, lines 116, 119) and
\* repeat themselves on the same local table, so a second run that ends with the
\* same local table repeats the first run's results.
TwinTrain ==
    /\ \/ pc = "start"
       \/ pc = "trained" /\ ~rerun.done
    /\ \E env \in TrainEnvs(df) : \E res \in {train_crop_recommendation_model(df, env)} :
          IF pc = "start"
          THEN /\ model' = res.model
               /\ features' = res.features
               /\ crops' = res.crops
               /\ accuracy' = res.accuracy
               /\ train_exc' = res.exc
               /\ train_df' = res.train_df
               /\ scaler' = res.scaler
               /\ pc' = "trained"
               /\ UNCHANGED rerun
          ELSE /\ IF res.train_df = train_df
                  THEN rerun' = [NoRerun EXCEPT !.done = TRUE, !.same = TRUE, !.model = model,
                                                !.features = features, !.crops = crops,
                                                !.accuracy = accuracy]
                  ELSE rerun' = [NoRerun EXCEPT !.done = TRUE, !.model = res.model,
                                                !.features = res.features, !.crops = res.crops,
                                                !.accuracy = res.accuracy]
               /\ UNCHANGED <<pc, model, features, crops, accuracy, train_exc, train_df, scaler>>
    /\ UNCHANGED <<df, input_data, X_input, recommended_crops, probability_scores,
                   parameter_match_info, crop_probs, predict_exc, page>>
    /\ UNCHANGED aux

\* The call of predict_crop of the first process (pc = "trained"), for any
\* observation, or of the second (pc = "predicted"), for the observation the
\* first one was given and with the second process's own model.
TwinPredict ==
    /\ rerun.done /\ ~rerun.predicted
    /\ pc \in {"trained", "predicted"}
    /\ \E m \in {IF pc = "trained"
                 THEN [model |-> model, features |-> features, crops |-> crops]
                 ELSE [model |-> rerun.model, features |-> rerun.features,
                       crops |-> rerun.crops]} :
       \E obs \in (IF pc = "trained" THEN Observations ELSE {input_data}) :
       \E probabilities \in ProbaOutcomes(m.model) :
       \E res \in {predict_crop(m.model, m.features, m.crops, obs, probabilities)} :
          IF pc = "trained"
          THEN /\ input_data' = obs
               /\ X_input' = res.X_input
               /\ recommended_crops' = res.recommended_crops
               /\ probability_scores' = res.probability_scores
               /\ parameter_match_info' = res.parameter_match_info
               /\ crop_probs' = res.crop_probs
               /\ predict_exc' = res.exc
               /\ pc' = "predicted"
               /\ UNCHANGED rerun
          ELSE /\ rerun' = [rerun EXCEPT
                              !.predicted = TRUE,
                              !.recommended_crops =
                                  IF rerun.same THEN recommended_crops
                                  ELSE res.recommended_crops,
                              !.probability_scores =
                                  IF rerun.same THEN probability_scores
                                  ELSE res.probability_scores]
               /\ UNCHANGED <<pc, input_data, X_input, recommended_crops, probability_scores,
                              parameter_match_info, crop_probs, predict_exc>>
    /\ UNCHANGED <<df, model, features, crops, accuracy, train_exc, train_df, scaler, page>>
    /\ UNCHANGED aux

TwinNext == TwinTrain \/ TwinPredict

TwinSpec == TwinInit /\ [][TwinNext]_vars

\* The scoring engine before any call, no table loaded.
MLIdle ==
    /\ df = NoTable
    /\ pc = "start"
    /\ model = None /\ features = None /\ crops = None /\ accuracy = 0
    /\ train_exc = "none" /\ train_df = None /\ scaler = None
    /\ input_data = << >> /\ X_input = None
    /\ recommended_crops = << >> /\ probability_scores = << >>
    /\ parameter_match_info = EmptyDict /\ crop_probs = << >>
    /\ predict_exc = "none"
    /\ page = NoPage
    /\ rerun = NoRerun

PageNext == OpenPage \/ ClickGetRecommendations

PageSpec == Init /\ [][PageNext]_vars

----------------------------------------------------------------------------
(* The cache around train_crop_recommendation_model, ml_models.py:9-11:    *)
(* @st.cache_resource keys an entry by the content of the argument and     *)
(* keeps it for the life of the server (no ttl, no max_entries).           *)

MaxCalls == 3       \* calls made through the cache

\* An entry keyed by the column names alone.
CacheKeyColumns(t) == t.cols

\* The key of a call: the fingerprint Streamlit computes of the DataFrame
\* argument, which covers the column names and every cell.
CacheKey(t) == [columns |-> t.cols, values |-> t.rows]

\* The tuple the function returns (what the cache stores).
Returned(res) ==
    [model |-> res.model, features |-> res.features, crops |-> res.crops,
     accuracy |-> res.accuracy]

\* The tables the calls are made on: a one-row sheet (the batch is appended, so
\* two trainings on it need not agree), a two-row sheet under the same header,
\* a sheet without ph (training fails) and a sheet with a crop column.
CacheTables ==
    {MakeTable(CanonicalColumns, <<Mixed[1]>>, NoLabels),
     MakeTable(CanonicalColumns, Mixed, NoLabels),
     MakeTable(NoPhColumns, Defaults(1), NoLabels),
     MakeTable(LabelledColumns, Defaults(2), <<"rice", "sugarcane">>)}

CacheInit == MLIdle /\ AuxIdle

\* A call train_crop_recommendation_model(t) through the decorator: an entry
\* under the key of t is returned as it is, otherwise the function body runs
\* and its result is stored under the key.  history records, per call, the
\* table, the result returned, whether the body ran, and the table the result
\* was computed from.
CachedTrain ==
    /\ Len(history) < MaxCalls
    /\ \E t \in CacheTables :
          IF \E e \in cache : e.key = CacheKey(t)
          THEN /\ \E e \in cache :
                     /\ e.key = CacheKey(t)
                     /\ history' = Append(history, [table |-> t, result |-> e.value,
                                                    trained |-> FALSE, source |-> e.source])
               /\ UNCHANGED cache
          ELSE \E env \in TrainEnvs(t) : \E res \in {train_crop_recommendation_model(t, env)} :
                  /\ cache' = cache \cup {[key |-> CacheKey(t), value |-> Returned(res),
                                           source |-> t]}
                  /\ history' = Append(history, [table |-> t, result |-> Returned(res),
                                                 trained |-> TRUE, source |-> t])
    /\ UNCHANGED <<mlvars, histvars, zipvars, homevars, matchvars, sheetvars>>

CacheNext == CachedTrain

CacheSpec == CacheInit /\ [][CacheNext]_vars

----------------------------------------------------------------------------
(* process_historical_data, data_processing.py:5-58.  A timestamp cell is  *)
(* Stamp(i) (a text pd.to_datetime parses, i its rank in time), a text it  *)
(* cannot parse, or missing.                                                *)

MaxHistRows == 3    \* rows of a table handed to process_historical_data

\* data_processing.py:23: pd.to_datetime(..., errors='coerce') of one cell.
ValidStamp(cell) == cell.k = "str" /\ cell.s = "timestamp"
ToDatetime(cell) == IF ValidStamp(cell) THEN cell ELSE NaN

\* data_processing.py:38: pd.to_numeric(..., errors='coerce') of one cell.
ToNumeric(cell) == IF cell.k = "num" THEN cell ELSE NaN

\* Column j of every row of rows replaced by f of it.
ColumnToDatetime(rows, j) ==
    Tuple([r \in 1..Len(rows) |-> [rows[r] EXCEPT ![j] = ToDatetime(rows[r][j])]], Len(rows))

ColumnToNumeric(rows, j) ==
    Tuple([r \in 1..Len(rows) |-> [rows[r] EXCEPT ![j] = ToNumeric(rows[r][j])]], Len(rows))

\* data_processing.py:26: dropna(subset=['timestamp']), the rows in order.
DropInvalid(rows, j) == SelectSeq(rows, LAMBDA row : row[j].k # "nan")

\* data_processing.py:29: sort_values('timestamp').  The default sort is not
\* stable: rows of equal timestamp come out in any order.
RowOrders(n) == {p \in [1..n -> 1..n] : \A a, b \in 1..n : a # b => p[a] # p[b]}

SortOutcomes(rows, j) ==
    {Tuple([i \in 1..Len(rows) |-> rows[p[i]]], Len(rows)) :
        p \in {q \in RowOrders(Len(rows)) :
                  \A a, b \in 1..Len(rows) : a < b => rows[q[a]][j].v <= rows[q[b]][j].v}}

\* The values of a list in ascending order.
RECURSIVE SortAsc(_)
SortAsc(xs) ==
    IF xs = << >> THEN << >>
    ELSE LET m == CHOOSE i \in 1..Len(xs) : \A k \in 1..Len(xs) : xs[i] <= xs[k]
         IN  <<xs[m]>> \o SortAsc(SubSeq(xs, 1, m - 1) \o SubSeq(xs, m + 1, Len(xs)))

\* The lower of the two middle values instead of their mean.
MedianLowerMiddle(sorted) == sorted[(Len(sorted) + 1) \div 2]

\* Series.median() of the values present, sorted: the middle value, or the mean
\* of the two middle values (fixed point).
MedianOf(sorted) ==
    IF Len(sorted) % 2 = 1 THEN sorted[(Len(sorted) + 1) \div 2]
    ELSE (sorted[Len(sorted) \div 2] + sorted[Len(sorted) \div 2 + 1]) \div 2

\* The values present in column j.
Present(rows, j) ==
    LET idx == SelectSeq(Tuple([r \in 1..Len(rows) |-> r], Len(rows)),
                         LAMBDA r : rows[r][j].k = "num")
    IN  Tuple([i \in 1..Len(idx) |-> rows[idx[i]][j].v], Len(idx))

\* data_processing.py:45-46: fillna(median) of one cell; the median of a column
\* with no value present is NaN and fillna(NaN) changes nothing.
FillCell(cell, present) ==
    IF cell.k = "nan" /\ present # << >> THEN Num(MedianOf(SortAsc(present))) ELSE cell

\* data_processing.py:44-46 for column j.
FillColumn(rows, j) ==
    Tuple([r \in 1..Len(rows) |->
              [rows[r] EXCEPT ![j] = FillCell(rows[r][j], Present(rows, j))]], Len(rows))

\* data_processing.py:32-46 for the columns from j on: to_numeric, then the fill.
RECURSIVE CleanColumns(_, _, _)
CleanColumns(cols, rows, j) ==
    IF j > Len(cols) THEN rows
    ELSE IF cols[j] = "timestamp" THEN CleanColumns(cols, rows, j + 1)
    ELSE CleanColumns(cols, FillColumn(ColumnToNumeric(rows, j), j), j + 1)

\* data_processing.py:49: drop_duplicates() keeps the first of equal rows.
RECURSIVE DropDuplicates(_)
DropDuplicates(rows) ==
    IF rows = << >> THEN << >>
    ELSE LET init == DropDuplicates(SubSeq(rows, 1, Len(rows) - 1))
             last == rows[Len(rows)]
         IN  IF \E i \in 1..Len(init) : init[i] = last THEN init ELSE Append(init, last)

\* processed_df[column] is a DataFrame when the name occurs twice: pd.to_datetime
\* and pd.to_numeric raise on it.
HasDuplicateColumn(t) == \E c \in Range(t.cols) : ColCount(t, c) > 1

\* data_processing.py:21-29: the rows after the timestamp handling.
StampOutcomes(t) ==
    IF HasCol(t, "timestamp")
    THEN SortOutcomes(DropInvalid(ColumnToDatetime(t.rows, ColIdx(t, "timestamp")),
                                  ColIdx(t, "timestamp")),
                      ColIdx(t, "timestamp"))
    ELSE {t.rows}

\* The results process_historical_data(t) can return.
process_historical_data(t) ==
    IF HasDuplicateColumn(t)
    THEN {[error |-> TRUE, table |-> t]}
    ELSE {[error |-> FALSE,
           table |-> [cols |-> t.cols, rows |-> DropDuplicates(CleanColumns(t.cols, rows, 1))]]
          : rows \in StampOutcomes(t)}

\* The tables handed over: under the header timestamp, ph every sequence of
\* up to MaxHistRows rows of a valid or unparseable timestamp and a ph reading
\* or a missing one; the same rows with a text column, without the timestamp
\* column, and with the ph column twice.
BadStamp == Str("n/a")

HistRowPool == {<<s, v>> : s \in {Stamp(1), Stamp(2), BadStamp}, v \in {Num(550), Num(700), NaN}}

HistRows == SeqsUpTo(HistRowPool, MaxHistRows)

\* rows with the cell c appended to each / with the first cell removed.
WithCell(rows, c) == Tuple([r \in 1..Len(rows) |-> Append(rows[r], c)], Len(rows))
WithoutFirst(rows) == Tuple([r \in 1..Len(rows) |-> Tail(rows[r])], Len(rows))

HistTables ==
    {[cols |-> <<"timestamp", "ph">>, rows |-> rows] : rows \in HistRows}
    \cup {[cols |-> <<"timestamp", "ph", "crop">>, rows |-> WithCell(rows, Str("rice"))]
          : rows \in {q \in HistRows : Len(q) = 2}}
    \cup {[cols |-> <<"ph">>, rows |-> WithoutFirst(rows)] : rows \in {q \in HistRows : Len(q) = 2}}
    \cup {[cols |-> <<"timestamp", "ph", "ph">>, rows |-> WithCell(rows, Num(700))]
          : rows \in {q \in HistRows : Len(q) = 2}}

HistInit ==
    /\ MLIdle /\ CacheIdle /\ ZipIdle /\ HomeIdle /\ MatchIdle /\ SheetIdle
    /\ hist_df \in HistTables
    /\ processed_df = None
    /\ hist_error = FALSE

\* hist_df = process_historical_data(df) (2_Historical_Data.py:41).  The
\* function works on a copy (line 18): the caller's table stays as it is.
ProcessHistoricalData ==
    /\ processed_df = None
    /\ \E res \in process_historical_data(hist_df) :
          /\ processed_df' = Some(res.table)
          /\ hist_error' = res.error
    /\ UNCHANGED <<hist_df, mlvars, cachevars, zipvars, homevars, matchvars, sheetvars>>

HistNext == ProcessHistoricalData

HistSpec == HistInit /\ [][HistNext]_vars

----------------------------------------------------------------------------
(* code_zip.py: the background thread (lines 92-99) and a page's call of   *)
(* download_code_zip (lines 102-120) work on the file ZIP_PATH without any *)
(* lock.  A file is an inode: os.remove unlinks the name, a writer that    *)
(* still has the file open keeps writing to it; content is "partial" while *)
(* a writer has it open, then "complete", or "corrupt" when two writers    *)
(* wrote to it at once.                                                    *)

\* A file nobody names and nobody has open is gone.
Collect(files, path, handles) ==
    [i \in FileIds |->
        IF i # path /\ files[i].writers = 0 /\ \A p \in Procs : handles[p] # i
        THEN NoFile ELSE files[i]]

\* Where a process goes when update_zip_if_needed returns.
AfterUpdate(p) == IF p = "thread" THEN "sleep" ELSE "exists"

\* code_zip.py:95, 93: time.sleep(30), then the next round.
Sleep(p) ==
    /\ zip_pc[p] = "sleep"
    /\ zip_pc' = [zip_pc EXCEPT ![p] = "update"]
    /\ UNCHANGED <<zip_path, zip_files, zip_handle, zip_stale, download>>

\* code_zip.py:75: if not os.path.exists(ZIP_PATH): return create_zip_file()
UpdateExists(p) ==
    /\ zip_pc[p] = "update"
    /\ zip_pc' = [zip_pc EXCEPT ![p] = IF zip_path = 0 THEN "create" ELSE "getmtime"]
    /\ UNCHANGED <<zip_path, zip_files, zip_handle, zip_stale, download>>

\* code_zip.py:79: zip_mod_time = os.path.getmtime(ZIP_PATH); OSError when the
\* file is gone, caught at line 87 (return False).
UpdateGetmtime(p) ==
    /\ zip_pc[p] = "getmtime"
    /\ IF zip_path = 0
       THEN /\ zip_pc' = [zip_pc EXCEPT ![p] = AfterUpdate(p)]
            /\ UNCHANGED zip_stale
       ELSE /\ zip_pc' = [zip_pc EXCEPT ![p] = "compare"]
            /\ zip_stale' = [zip_stale EXCEPT ![p] = zip_files[zip_path].stale]
    /\ UNCHANGED <<zip_path, zip_files, zip_handle, download>>

\* code_zip.py:80-86: last_mod_time = get_last_modified_time(); a newer source
\* file leads to create_zip_file(), otherwise return True.
UpdateCompare(p) ==
    /\ zip_pc[p] = "compare"
    /\ zip_pc' = [zip_pc EXCEPT ![p] = IF zip_stale[p] THEN "create" ELSE AfterUpdate(p)]
    /\ UNCHANGED <<zip_path, zip_files, zip_handle, zip_stale, download>>

\* code_zip.py:37: if os.path.exists(ZIP_PATH):
CreateExists(p) ==
    /\ zip_pc[p] = "create"
    /\ zip_pc' = [zip_pc EXCEPT ![p] = IF zip_path = 0 THEN "open" ELSE "remove"]
    /\ UNCHANGED <<zip_path, zip_files, zip_handle, zip_stale, download>>

\* code_zip.py:38: os.remove(ZIP_PATH); FileNotFoundError when the file is
\* gone, caught at line 66 (return False).
CreateRemove(p) ==
    /\ zip_pc[p] = "remove"
    /\ IF zip_path = 0
       THEN /\ zip_pc' = [zip_pc EXCEPT ![p] = AfterUpdate(p)]
            /\ UNCHANGED <<zip_path, zip_files>>
       ELSE /\ zip_pc' = [zip_pc EXCEPT ![p] = "open"]
            /\ zip_path' = 0
            /\ zip_files' = Collect(zip_files, 0, zip_handle)
    /\ UNCHANGED <<zip_handle, zip_stale, download>>

\* code_zip.py:41: zipfile.ZipFile(ZIP_PATH, 'w', ...) creates the file, or
\* truncates the one that is there.
CreateOpen(p) ==
    /\ zip_pc[p] = "open"
    /\ \E i \in FileIds :
          /\ IF zip_path = 0
             THEN /\ zip_files[i].content = "free"
                  /\ \A j \in FileIds : zip_files[j].content = "free" => i <= j
             ELSE i = zip_path
          /\ zip_path' = i
          /\ zip_files' = [zip_files EXCEPT ![i] =
                              [content |-> "partial", writers |-> zip_files[i].writers + 1,
                               garbled |-> zip_files[i].writers > 0, stale |-> FALSE]]
          /\ zip_handle' = [zip_handle EXCEPT ![p] = i]
    /\ zip_pc' = [zip_pc EXCEPT ![p] = "write"]
    /\ UNCHANGED <<zip_stale, download>>

\* code_zip.py:43-61: the members are written one after the other.
CreateWrite(p) ==
    /\ zip_pc[p] = "write"
    /\ zip_files' = [zip_files EXCEPT ![zip_handle[p]].stale = FALSE]
    /\ zip_pc' = [zip_pc EXCEPT ![p] = "close"]
    /\ UNCHANGED <<zip_path, zip_handle, zip_stale, download>>

\* code_zip.py:41 (end of the with block), 63-64: the central directory is
\* written and the file closed; return True.
CreateClose(p) ==
    /\ zip_pc[p] = "close"
    /\ \E closed \in {[zip_files EXCEPT
                         ![zip_handle[p]].writers = @ - 1,
                         ![zip_handle[p]].stale = FALSE,
                         ![zip_handle[p]].content =
                             IF zip_files[zip_handle[p]].writers > 1 THEN "partial"
                             ELSE IF zip_files[zip_handle[p]].garbled THEN "corrupt"
                             ELSE "complete"]} :
          zip_files' = Collect(closed, zip_path, [zip_handle EXCEPT ![p] = 0])
    /\ zip_handle' = [zip_handle EXCEPT ![p] = 0]
    /\ zip_pc' = [zip_pc EXCEPT ![p] = AfterUpdate(p)]
    /\ UNCHANGED <<zip_path, zip_stale, download>>

\* A page run calls download_code_zip(): line 104, update_zip_if_needed().
StartDownload ==
    /\ zip_pc["download"] \in {"idle", "done"}
    /\ zip_pc' = [zip_pc EXCEPT !["download"] = "update"]
    /\ download' = "none"
    /\ UNCHANGED <<zip_path, zip_files, zip_handle, zip_stale>>

\* code_zip.py:107, 119-120: if os.path.exists(ZIP_PATH): ... else: st.error(...)
DownloadExists ==
    /\ zip_pc["download"] = "exists"
    /\ IF zip_path = 0
       THEN /\ zip_pc' = [zip_pc EXCEPT !["download"] = "done"]
            /\ download' = "not available"
       ELSE /\ zip_pc' = [zip_pc EXCEPT !["download"] = "read"]
            /\ UNCHANGED download
    /\ UNCHANGED <<zip_path, zip_files, zip_handle, zip_stale>>

\* code_zip.py:108-118: open(ZIP_PATH, 'rb'), f.read(), st.download_button(...);
\* open raises FileNotFoundError when the file is gone, and nothing catches it.
DownloadRead ==
    /\ zip_pc["download"] = "read"
    /\ download' = IF zip_path = 0 THEN "raised"
                   ELSE IF zip_files[zip_path].content = "complete" THEN "served complete"
                   ELSE "served incomplete"
    /\ zip_pc' = [zip_pc EXCEPT !["download"] = "done"]
    /\ UNCHANGED <<zip_path, zip_files, zip_handle, zip_stale>>

\* A source file is modified: every archive is older than the sources, also the
\* modification time a process has just read.
TouchSource ==
    /\ zip_files' = [i \in FileIds |->
                        IF zip_files[i].content = "free" THEN zip_files[i]
                        ELSE [zip_files[i] EXCEPT !.stale = TRUE]]
    /\ zip_stale' = [p \in Procs |-> zip_stale[p] \/ zip_pc[p] = "compare"]
    /\ UNCHANGED <<zip_path, zip_pc, zip_handle, download>>

ZipStep(p) ==
    \/ Sleep(p)
    \/ UpdateExists(p)
    \/ UpdateGetmtime(p)
    \/ UpdateCompare(p)
    \/ CreateExists(p)
    \/ CreateRemove(p)
    \/ CreateOpen(p)
    \/ CreateWrite(p)
    \/ CreateClose(p)

ZipInit ==
    MLIdle /\ CacheIdle /\ HistIdle /\ ZipIdle /\ HomeIdle /\ MatchIdle /\ SheetIdle

ZipNext ==
    /\ \/ \E p \in Procs : ZipStep(p)
       \/ StartDownload
       \/ DownloadExists
       \/ DownloadRead
       \/ TouchSource
    /\ UNCHANGED <<mlvars, cachevars, histvars, homevars, matchvars, sheetvars>>

ZipSpec == ZipInit /\ [][ZipNext]_vars

----------------------------------------------------------------------------
(* app.py: the home page's connection form.  One action is one run of the  *)
(* script.                                                                 *)

\* The text a user can put into the form's fields, and the world behind them:
\* one spreadsheet the service account can read, with two tabs.
IdTexts == {"", "sheet-1", "sheet-2"}

NameTexts == {"", "Sheet1", "Log", "Other"}

CredentialTexts == {"", "key-A", "not json"}

\* A URL as its pieces between slashes.
UrlTexts == {<< >>,
             <<"https:", "", "docs.google.com", "spreadsheets", "d", "sheet-1", "edit">>,
             <<"https:", "", "docs.google.com", "spreadsheets", "d", "", "sheet-2">>,
             <<"https:", "", "example.com", "sheet-1">>}

SheetTitles(id) == IF id = "sheet-1" THEN {"Sheet1", "Log"} ELSE {}

\* app.py:209-217: re.search(r'/d/([a-zA-Z0-9-_]+)', sheet_url)
UrlMatches(url) == {i \in 2..Len(url) - 1 : url[i] = "d" /\ url[i + 1] # ""}

ExtractId(url) ==
    IF UrlMatches(url) = {} THEN ""
    ELSE url[(CHOOSE i \in UrlMatches(url) : \A j \in UrlMatches(url) : i <= j) + 1]

\* sheets_integration.py:21-42: json.loads and from_service_account_info on
\* the text; any failure gives None.
BuildService(credentials) == credentials = "key-A"

\* sheets_integration.py:10-11: st.cache_resource does not hash a parameter
\* whose name starts with an underscore, so the first result answers every
\* later call.
Authenticate(cached, credentials) ==
    IF cached # None THEN Val(cached) ELSE BuildService(credentials)

\* json.dump of the dict of app.py:280-286, as the members written so far.
JsonBool(b) == [type |-> "literal", text |-> IF b THEN "true" ELSE "false"]

JsonString(text) == [type |-> "string", text |-> text]

JsonDump(id, name, credentials, url) ==
    [members |-> <<JsonBool(TRUE), JsonString(id), JsonString(name),
                   JsonString(credentials), JsonBool(url)>>,
     closed |-> TRUE]

\* A write that stops part way leaves the file with the text so far.
WriteOutcomes(file, text) ==
    {[how |-> "ok", file |-> Some(text)], [how |-> "not opened", file |-> file]}
    \cup {[how |-> "cut short",
           file |-> Some([members |-> SubSeq(text.members, 1, k), closed |-> FALSE])] :
            k \in 0..Len(text.members) - 1}

\* os.remove of app.py:341-342 either removes the file or raises.
RemoveOutcomes(file) ==
    IF file = None THEN {[how |-> "no file", file |-> None]}
    ELSE {[how |-> "ok", file |-> None], [how |-> "failed", file |-> file]}

Unconfigured == [configured |-> FALSE, spreadsheet_id |-> "", sheet_name |-> "",
                 credentials_json |-> "", show_sheet_url |-> FALSE]

\* app.py:132-151: json.load and config.get(...); JSONDecodeError on a text
\* that does not end, caught at line 146.
JsonLoadSwapped(text) ==
    [configured |-> text.members[1].text = "true",
     spreadsheet_id |-> text.members[3].text,
     sheet_name |-> text.members[2].text,
     credentials_json |-> text.members[4].text,
     show_sheet_url |-> text.members[5].text = "true"]

JsonLoad(text) ==
    [configured |-> text.members[1].text = "true",
     spreadsheet_id |-> text.members[2].text,
     sheet_name |-> text.members[3].text,
     credentials_json |-> text.members[4].text,
     show_sheet_url |-> text.members[5].text = "true"]

LoadConfig(file) ==
    IF file = None THEN Unconfigured
    ELSE IF ~Val(file).closed THEN Unconfigured
    ELSE JsonLoad(Val(file))

\* app.py:246-252: the three fields must not be empty.
ValidateIdAndName(id, name, credentials) ==
    IF id = "" THEN "no spreadsheet id"
    ELSE IF name = "" THEN "no sheet name"
    ELSE "valid"

Validate(id, name, credentials) ==
    IF id = "" THEN "no spreadsheet id"
    ELSE IF name = "" THEN "no sheet name"
    ELSE IF credentials = "" THEN "no credentials"
    ELSE "valid"

\* app.py:245-267, 293-296: what a submission comes to.
SubmitResult(valid, service, api_ok, tab) ==
    IF valid # "valid" THEN valid
    ELSE IF ~service THEN "no service"
    ELSE IF ~api_ok THEN "exception"
    ELSE IF tab THEN "connected"
    ELSE "tab not found"

\* app.py:267: if sheet_name in sheet_titles:
StoresConnectionOnAnyTab(result) == result \in {"connected", "tab not found"}

StoresConnection(result) == result = "connected"

\* app.py:126-151: the first run of a session.
FreshSession ==
    /\ \E config \in {LoadConfig(config_file)} :
          /\ google_sheets_configured' = config.configured
          /\ spreadsheet_id' = config.spreadsheet_id
          /\ sheet_name' = config.sheet_name
          /\ credentials_json' = config.credentials_json
          /\ show_sheet_url' = config.show_sheet_url
    /\ home_event' = [NoEvent EXCEPT !.kind = "init"]
    /\ UNCHANGED <<config_file, auth_cache>>

\* app.py:166: the toggle.
ToggleUrl ==
    /\ show_sheet_url' = ~show_sheet_url
    /\ home_event' = [NoEvent EXCEPT !.kind = "toggle"]
    /\ UNCHANGED <<session, config_file, auth_cache>>

\* app.py:197-296: the form is submitted.
Submit ==
    \E typed \in IF show_sheet_url THEN UrlTexts ELSE IdTexts,
       name \in NameTexts, credentials \in CredentialTexts, api_ok \in BOOLEAN :
       \E id \in {IF show_sheet_url THEN ExtractId(typed) ELSE typed} :
       \E valid \in {Validate(id, name, credentials)} :
       \E service \in {valid = "valid" /\ Authenticate(auth_cache, credentials)} :
       \E result \in {SubmitResult(valid, service, api_ok, name \in SheetTitles(id))} :
       \E written \in IF StoresConnection(result)
                      THEN WriteOutcomes(config_file,
                                         JsonDump(id, name, credentials, show_sheet_url))
                      ELSE {[how |-> "none", file |-> config_file]} :
          /\ auth_cache' = IF valid = "valid" THEN Some(service) ELSE auth_cache
          /\ IF StoresConnection(result)
             THEN /\ google_sheets_configured' = TRUE
                  /\ spreadsheet_id' = id
                  /\ sheet_name' = name
                  /\ credentials_json' = credentials
             ELSE UNCHANGED session
          /\ config_file' = written.file
          /\ home_event' = [kind |-> "submit", result |-> result, service |-> service,
                            tab |-> name \in SheetTitles(id), write |-> written.how,
                            remove |-> "none"]
          /\ UNCHANGED show_sheet_url

\* app.py:299, 336-351: the Reset Connection button, shown while connected.
ResetConnection ==
    /\ google_sheets_configured
    /\ \E removed \in RemoveOutcomes(config_file) :
          /\ config_file' = removed.file
          /\ home_event' = [NoEvent EXCEPT !.kind = "reset", !.remove = removed.how]
    /\ google_sheets_configured' = FALSE
    /\ spreadsheet_id' = ""
    /\ sheet_name' = ""
    /\ credentials_json' = ""
    /\ UNCHANGED <<show_sheet_url, auth_cache>>

HomeInit ==
    MLIdle /\ CacheIdle /\ HistIdle /\ ZipIdle /\ HomeIdle /\ MatchIdle /\ SheetIdle

HomeNext ==
    /\ \/ FreshSession
       \/ ToggleUrl
       \/ Submit
       \/ ResetConnection
    /\ UNCHANGED <<mlvars, cachevars, histvars, zipvars, matchvars, sheetvars>>

HomeSpec == HomeInit /\ [][HomeNext]_vars

----------------------------------------------------------------------------
(* predict_crop's match percentage of one parameter (ml_models.py:219-239) *)
(* on its own: a range, and an observed value that moves away from it on   *)
(* both sides.  Values are in hundredths, as everywhere.                   *)

MaxWidth == 8

MaxDistance == 6

RangeMins == {0, 580, 2000}

IdealRanges == {<<lo, lo + w>> : lo \in RangeMins, w \in 1..MaxWidth}

\* ml_models.py:219-239 for cur_val = min_val - d and for cur_val = max_val + d.
MatchesAt(range, d) ==
    <<match_percent(range[1] - d, range[1], range[2]),
      match_percent(range[2] + d, range[1], range[2])>>

MatchInit ==
    /\ MLIdle /\ CacheIdle /\ HistIdle /\ ZipIdle /\ HomeIdle /\ SheetIdle
    /\ ideal_range \in IdealRanges
    /\ outside \in 0..MaxDistance
    /\ match_pair = None

\* The page asks for the match at the present outside.
Measure ==
    /\ match_pair = None
    /\ match_pair' = Some(MatchesAt(ideal_range, outside))
    /\ UNCHANGED <<ideal_range, outside>>

\* The observed value is moved farther from the range and the match is
\* computed again.
MoveAway ==
    /\ match_pair # None
    /\ \E d \in outside + 1..MaxDistance :
          /\ outside' = d
          /\ match_pair' = Some(MatchesAt(ideal_range, d))
    /\ UNCHANGED ideal_range

MatchNext ==
    /\ \/ Measure
       \/ MoveAway
    /\ UNCHANGED <<mlvars, cachevars, histvars, zipvars, homevars, sheetvars>>

MatchSpec == MatchInit /\ [][MatchNext]_vars

----------------------------------------------------------------------------
(* get_sheet_data (sheets_integration.py:87-174), one execution of its     *)
(* body.  values is what the API returns: a list of rows of text cells,    *)
(* the first being the headers.                                            *)

MaxSheetRows == 2

MaxSheetCols == 3

HeaderTexts == {"Timestamp", "N", "nitrogen"}

CellTexts == {"7", "wet"}

ListsUpTo(S, n) == UNION {[1..k -> S] : k \in 0..n}

\* A sheet has at most MaxSheetCols - 1 headers, so that a row can be longer
\* than the header row.
SheetValues ==
    {<< >>}
    \cup {<<h>> \o data : h \in ListsUpTo(HeaderTexts, MaxSheetCols - 1),
                          data \in ListsUpTo(ListsUpTo(CellTexts, MaxSheetCols), MaxSheetRows)}

\* A cell that holds None.
NoneCell == [k |-> "none", v |-> 0, s |-> ""]

\* The row as it is, without the padding.
PadNothing(row, n) == [i \in 1..Len(row) |-> Str(row[i])]

\* sheets_integration.py:132-136: row + [None] * (len(headers) - len(row)) for
\* a short row; any other row as it is.
PadRow(row, n) ==
    [i \in 1..Max(Len(row), n) |-> IF i <= Len(row) THEN Str(row[i]) ELSE NoneCell]

\* sheets_integration.py:142-152
sheet_column_mapping(c) ==
    CASE c = "N" -> "nitrogen"
      [] c = "P" -> "phosphorus"
      [] c = "K" -> "potassium"
      [] c = "Temperature" -> "temperature"
      [] c = "Humidity" -> "humidity"
      [] c = "pH" -> "ph"
      [] OTHER -> c

\* str.lower() on the header texts in use.
Lower(c) ==
    CASE c = "Timestamp" -> "timestamp"
      [] c = "N" -> "n"
      [] OTHER -> c

\* The number a text stands for, if any.
NumberOf(text) == IF text = "7" THEN Some(7 * FP) ELSE None

\* pd.to_numeric on one cell: None becomes NaN, a text its number.
NumericCell(cell) ==
    IF cell.k = "str" THEN Num(Val(NumberOf(cell.s))) ELSE NaN

Converts(cell) == cell.k # "str" \/ NumberOf(cell.s) # None

\* sheets_integration.py:155-165: every column but timestamp is converted when
\* all its cells convert; to_numeric raises TypeError on a column whose name
\* occurs twice, and ValueError on a text that is no number: kept as is.
ConvertColumns(cols, rows) ==
    LET converted == {j \in 1..Len(cols) :
                        /\ Lower(cols[j]) # "timestamp"
                        /\ \A i \in 1..Len(cols) : cols[i] = cols[j] => i = j
                        /\ \A r \in 1..Len(rows) : Converts(rows[r][j])}
    IN  [r \in 1..Len(rows) |->
            [j \in 1..Len(cols) |->
                IF j \in converted THEN NumericCell(rows[r][j]) ELSE rows[r][j]]]

Returns(frame) == [state |-> "returned", df |-> frame]

\* sheets_integration.py:87-174
get_sheet_data(service, api_ok, values) ==
    IF ~service THEN Returns(None)
    ELSE IF ~api_ok THEN Returns(None)
    ELSE IF values = << >> THEN Returns(None)
    ELSE IF Len(values) = 1 THEN Returns(Some([cols |-> values[1], rows |-> << >>]))
    ELSE LET headers == values[1]
             data_fixed == [r \in 1..Len(values) - 1 |-> PadRow(values[r + 1], Len(headers))]
             cols == [j \in 1..Len(headers) |-> sheet_column_mapping(headers[j])]
         IN  IF \E r \in 1..Len(data_fixed) : Len(data_fixed[r]) # Len(headers)
             THEN Returns(None)
             ELSE Returns(Some([cols |-> cols, rows |-> ConvertColumns(cols, data_fixed)]))

SheetInit ==
    /\ MLIdle /\ CacheIdle /\ HistIdle /\ ZipIdle /\ HomeIdle /\ MatchIdle
    /\ sheet \in [service : BOOLEAN, api_ok : BOOLEAN, values : SheetValues]
    /\ sheet_result = NotCalled

GetSheetData ==
    /\ sheet_result = NotCalled
    /\ sheet_result' = get_sheet_data(sheet.service, sheet.api_ok, sheet.values)
    /\ UNCHANGED sheet

SheetNext ==
    /\ GetSheetData
    /\ UNCHANGED <<mlvars, cachevars, histvars, zipvars, homevars, matchvars>>

SheetSpec == SheetInit /\ [][SheetNext]_vars

----------------------------------------------------------------------------
(* Properties *)

Index(seq, x) == CHOOSE i \in 1..Len(seq) : seq[i] = x

InputValues == [i \in 1..Len(required_features) |-> input_data[required_features[i]]]

\* The six fields are present and within their domains (nutrients >= 0,
\* humidity 0-100, ph 0-14).
ValidObservation(obs) ==
    /\ \A f \in Range(required_features) : f \in DOMAIN obs
    /\ \A f \in {"nitrogen", "phosphorus", "potassium"} : obs[f] >= 0
    /\ obs["humidity"] >= 0 /\ obs["humidity"] <= 100 * FP
    /\ obs["ph"] >= 0 /\ obs["ph"] <= 14 * FP

\* C1: every numeric per-parameter match percentage predict_crop reports lies
\* in [0, 100], and an observed value equal to the min or the max of the crop's
\* ideal range scores exactly 100.
C1_MatchWithinBounds ==
    \A c \in DOMAIN parameter_match_info :
        \A f \in DOMAIN parameter_match_info[c].matches :
            LET m == parameter_match_info[c].matches[f]
            IN  ~IsNone(m) =>
                   /\ Val(m) >= 0 /\ Val(m) <= 100
                   /\ input_data[f] \in {ideal_params(c)[f][1], ideal_params(c)[f][2]}
                         => Val(m) = 100

\* C1 witness: a prediction reported a match for a value on a range boundary,
\* one strictly between 0 and 100, and one of 0.
C1_Witness ==
    /\ pc = "predicted"
    /\ \E c \in DOMAIN parameter_match_info : \E f \in DOMAIN parameter_match_info[c].matches :
          /\ ~IsNone(parameter_match_info[c].matches[f])
          /\ input_data[f] = ideal_params(c)[f][1]
    /\ \E c \in DOMAIN parameter_match_info : \E f \in DOMAIN parameter_match_info[c].matches :
          /\ ~IsNone(parameter_match_info[c].matches[f])
          /\ Val(parameter_match_info[c].matches[f]) \in 1..99
    /\ \E c \in DOMAIN parameter_match_info : \E f \in DOMAIN parameter_match_info[c].matches :
          /\ ~IsNone(parameter_match_info[c].matches[f])
          /\ input_data[f] < ideal_params(c)[f][1]
          /\ Val(parameter_match_info[c].matches[f]) = 0

\* C2: the crop list train returns is exactly the sorted list of the classes
\* the classifier was fitted on (same length, same order), so that the i-th
\* probability belongs to the i-th crop.
C2_CropsAreFittedClasses ==
    ~IsNone(model) => Val(crops) = Val(model).classes

\* C3: a non-empty recommendation list has at most 5 entries, every
\* suitability percentage is in [0, 100], and the percentages do not increase.
C3_RankedListValid ==
    recommended_crops # << >> =>
        /\ Len(recommended_crops) <= 5
        /\ Len(probability_scores) = Len(recommended_crops)
        /\ \A i \in 1..Len(probability_scores) :
              probability_scores[i] >= 0 /\ probability_scores[i] <= 100 * FP
        /\ \A i \in 1..(Len(probability_scores) - 1) :
              probability_scores[i] >= probability_scores[i + 1]

\* C3 witness: more than five crops were ranked, five are recommended, and
\* their percentages differ.
C3_Witness ==
    /\ Len(crop_probs) > 5
    /\ Len(recommended_crops) = 5
    /\ probability_scores[1] > probability_scores[5]

\* C4: crops of exactly equal probability are ranked in the order of the sorted
\* crop list train returned: the sort never swaps tied crops.
C4_TiesKeepLabelOrder ==
    \A i \in 1..Len(crop_probs) : \A j \in 1..Len(crop_probs) :
        (i < j /\ crop_probs[i][2] = crop_probs[j][2])
            => Index(Val(crops), crop_probs[i][1]) < Index(Val(crops), crop_probs[j][1])

\* C4 witness: of more than two ranked crops, two tie on a non-zero
\* probability.
C4_Witness ==
    \E i \in 1..Len(crop_probs) : \E j \in 1..Len(crop_probs) :
        /\ i < j
        /\ crop_probs[i][2] = crop_probs[j][2]
        /\ crop_probs[i][2] > 0
        /\ Len(crop_probs) > 2

\* C5: once train is past the label synthesizer (rule labels and, if triggered,
\* the 50 synthetic rows), the label column holds at least two distinct values.
C5_TwoDistinctLabels ==
    ~IsNone(train_df) =>
        Cardinality(Labels(Val(train_df), LabelColumn(Val(train_df)))) >= 2

\* C6: when training fails, the page takes the no-model path: it reports no
\* trained model, does not call predict_crop without a model, and a press of
\* the button yields the heuristic recommendation, not an error.
C6_FailedTrainingTakesNoModelPath ==
    (page.ran /\ page.trained /\ IsNone(model)) =>
        /\ ~page.success_reported
        /\ ~page.predict_without_model
        /\ ~page.error_shown
        /\ page.clicked => page.shown = "heuristic"

\* C7: for a table that lacks only the ph column the page run does not end in
\* the error handler: the form is shown, and a press of the button yields the
\* no-model (heuristic) recommendation.
C7_MissingPhDegradesGracefully ==
    (page.ran /\ page.missing_features = {"ph"}) =>
        /\ ~page.error_shown
        /\ page.form_shown
        /\ ~page.has_model
        /\ page.clicked => page.shown = "heuristic"

\* C8: the vector predict_crop hands to the classifier is the observation
\* standardized with the scaler fitted in training.
C8_ObservationStandardized ==
    (~IsNone(X_input) /\ ~IsNone(scaler) /\ ~IsNone(model)) =>
        Val(X_input) = Standardize(Val(scaler), InputValues)

\* C9: an observation that lacks a required field or holds a value outside its
\* domain is rejected with an error raised to the caller, and no ranked list is
\* produced for it.
C9_InvalidObservationRejected ==
    (pc = "predicted" /\ ~ValidObservation(input_data)) =>
        /\ predict_exc = "escaped"
        /\ recommended_crops = << >>

\* C10: neither function lets an exception reach its caller; a failure inside
\* train comes back as (None, None, None, 0), one inside predict as ([], [], {}).
C10_FailuresAbsorbed ==
    /\ train_exc # "escaped"
    /\ predict_exc # "escaped"
    /\ train_exc = "caught" =>
          IsNone(model) /\ IsNone(features) /\ IsNone(crops) /\ accuracy = 0
    /\ predict_exc = "caught" =>
          /\ recommended_crops = << >>
          /\ probability_scores = << >>
          /\ parameter_match_info = EmptyDict

\* C10 witness: an exception was raised and absorbed inside train, and then
\* one inside predict_crop (called with the missing model).
C10_Witness ==
    /\ pc = "predicted"
    /\ train_exc = "caught"
    /\ predict_exc = "caught"
    /\ ~IsNone(train_df)

\* C11: two independent runs of training and prediction on the same table and
\* the same observation return the same crop list, the same accuracy and the
\* same ranking, also when the synthetic batch is appended.
C11_RunsAgree ==
    /\ rerun.done => rerun.crops = crops /\ rerun.accuracy = accuracy
    /\ rerun.predicted =>
          /\ rerun.recommended_crops = recommended_crops
          /\ rerun.probability_scores = probability_scores

\* The five crops of the ideal-range table ranked by overall match, best first
\* (ties in the order of the table).
Catalogue == <<"rice", "wheat", "maize", "chickpea", "cotton">>

CatalogueRanking(obs) ==
    LET ranked == SortByProbabilityDesc(
                      [i \in 1..Len(Catalogue) |->
                          <<Catalogue[i], MatchDetail(Catalogue[i], required_features, obs).overall>>])
    IN  [i \in 1..Len(ranked) |-> ranked[i][1]]

\* C12: on a table that lacks required features the page offers the no-model
\* recommendation (the form and its button), and a press of the button shows
\* the crops of the ideal-range table ranked by overall match, best first.
C12_NoModelRanksCatalogue ==
    (page.ran /\ page.missing_features # {}) =>
        /\ page.form_shown
        /\ page.clicked =>
              /\ page.shown = "heuristic"
              /\ page.recommendations = CatalogueRanking(input_data)

\* The numeric per-parameter matches of a detail: how many, and their sum.
NumericParams(detail) == {f \in DOMAIN detail.matches : ~IsNone(detail.matches[f])}

RECURSIVE SumOfMatches(_, _)
SumOfMatches(detail, S) ==
    IF S = {} THEN 0
    ELSE LET f == CHOOSE g \in S : TRUE
         IN  Val(detail.matches[f]) + SumOfMatches(detail, S \ {f})

\* C13 as stated: the overall match of a crop with ideal ranges is exactly the
\* arithmetic mean of its numeric per-parameter matches.
C13_OverallIsMean ==
    \A c \in DOMAIN parameter_match_info :
        LET d == parameter_match_info[c]
            n == Cardinality(NumericParams(d))
        IN  n > 0 => d.overall * n = SumOfMatches(d, NumericParams(d))

\* C13 amended: the overall match is the integer nearest to that mean (taken
\* over the parameters that have a range only), a mean half way between two
\* integers going to the even one.
C13_OverallIsRoundedMean ==
    \A c \in DOMAIN parameter_match_info :
        LET d == parameter_match_info[c]
            n == Cardinality(NumericParams(d))
            sum == SumOfMatches(d, NumericParams(d))
            twice == 2 * (d.overall * n - sum)
        IN  n > 0 =>
               /\ twice <= n /\ -twice <= n
               /\ (twice = n \/ -twice = n) => d.overall % 2 = 0

\* C13 witness: a recommended crop with ideal ranges whose matches do not all
\* agree and whose mean is not an integer.
C13_Witness ==
    \E c \in DOMAIN parameter_match_info :
        LET d == parameter_match_info[c]
            n == Cardinality(NumericParams(d))
        IN  /\ n > 0
            /\ SumOfMatches(d, NumericParams(d)) % n # 0
            /\ d.overall * n > SumOfMatches(d, NumericParams(d))

\* The suitability percentage predict_crop returned for a recommended crop.
ScoreOf(c) == probability_scores[Index(recommended_crops, c)]

\* The detail reports "Unknown" for every feature's match and ideal range.
AllUnknown(d) ==
    /\ DOMAIN d.matches = Range(required_features)
    /\ DOMAIN d.ideal_ranges = Range(required_features)
    /\ \A f \in Range(required_features) : d.matches[f] = Unknown /\ d.ideal_ranges[f] = Unknown

C15_TopThreeHaveDetail ==
    /\ \A i \in 1..Min(3, Len(recommended_crops)) :
          recommended_crops[i] \in DOMAIN parameter_match_info
    /\ DOMAIN parameter_match_info \subseteq Range(recommended_crops)
    /\ Len(recommended_crops) = Len(probability_scores)

\* C15 witness: at least three crops are recommended, and among the top 3 are
\* one with ideal ranges and one without.
C15_Witness ==
    /\ Len(recommended_crops) >= 3
    /\ \E i \in 1..3 : HasIdeal(recommended_crops[i])
    /\ \E i \in 1..3 : ~HasIdeal(recommended_crops[i])
    /\ DOMAIN parameter_match_info = Range(recommended_crops)

\* The labelling rules as a priority list: the conditions in their order and
\* the label each gives.
RuleLabels == <<"rice", "cotton", "maize", "wheat", "banana">>

RuleHolds(i, row) ==
    CASE i = 1 -> LT(row["ph"], 600) /\ GT(row["humidity"], 7000)
      [] i = 2 -> GT(row["temperature"], 3000) /\ LT(row["humidity"], 5000)
      [] i = 3 -> GT(row["nitrogen"], 5000) /\ GT(row["potassium"], 5000)
      [] i = 4 -> GT(row["ph"], 700) /\ LT(row["temperature"], 2000)
      [] i = 5 -> GT(row["humidity"], 8000) /\ GT(row["temperature"], 2500)

FirstRuleLabel(row) ==
    IF \E i \in 1..Len(RuleLabels) : RuleHolds(i, row)
    THEN RuleLabels[CHOOSE i \in 1..Len(RuleLabels) :
                        RuleHolds(i, row) /\ \A j \in 1..(i - 1) : ~RuleHolds(j, row)]
    ELSE "chickpea"

\* The table had no label column when train began.
Unlabelled(t) == ~HasCol(Rename(t), "crop") /\ ~HasCol(Rename(t), "label")

\* C16: in a table without a label column every row is labelled by the first
\* rule that holds for its own values, in the order rice, cotton, maize,
\* wheat, banana, and chickpea when none holds.  (Checked when train returns.)
C16_FirstRuleLabelsRow ==
    (pc = "trained" /\ ~IsNone(train_df) /\ Unlabelled(df)) =>
        \A r \in 1..NRows(df) :
            Cell(Val(train_df), r, "crop") = Str(FirstRuleLabel(RowOf(Rename(df), r)))

\* C16 witness: a labelled row for which several rules hold.
C16_Witness ==
    /\ pc = "trained" /\ ~IsNone(train_df) /\ Unlabelled(df)
    /\ \E r \in 1..NRows(df) :
          /\ Cardinality({i \in 1..Len(RuleLabels) : RuleHolds(i, RowOf(Rename(df), r))}) >= 2
          /\ Cell(Val(train_df), r, "crop").s \in {"rice", "maize"}

\* The distinct values of the label column over the rows of the input table,
\* as train's local table holds them (a missing label is a value of its own,
\* as for y.unique()).
InputLabels ==
    {LabelOf(Cell(Val(train_df), r, LabelColumn(Val(train_df)))) : r \in 1..NRows(df)}

\* The row of the local table is one of the synthetic batch: a listed crop, and
\* nitrogen, phosphorus and potassium within 0-140, 5-145 and 5-205.
IsSyntheticRow(t, r) ==
    /\ Cell(t, r, LabelColumn(t)).s \in Range(synthetic_crops)
    /\ Cell(t, r, "nitrogen").v >= 0 /\ Cell(t, r, "nitrogen").v <= 140 * FP
    /\ Cell(t, r, "phosphorus").v >= 5 * FP /\ Cell(t, r, "phosphorus").v <= 145 * FP
    /\ Cell(t, r, "potassium").v >= 5 * FP /\ Cell(t, r, "potassium").v <= 205 * FP

\* C17: the batch is appended iff the labelled table has fewer than two
\* distinct labels; appended, it is exactly 50 rows, each with one of the 23
\* crops and nitrogen, phosphorus, potassium within their limits; not appended,
\* the training table has exactly the rows of the input.  (Checked when train
\* returns; its local table does not change afterwards.)
C17_BatchIffFewLabels ==
    (pc = "trained" /\ ~IsNone(train_df)) =>
        LET t == Val(train_df)
        IN  /\ Len(synthetic_crops) = 23
            /\ \A r \in 1..NRows(df) : \A j \in 1..Len(df.cols) : t.rows[r][j] = df.rows[r][j]
            /\ IF Cardinality(InputLabels) < 2
               THEN /\ NRows(t) = NRows(df) + 50
                    /\ \A r \in (NRows(df) + 1)..NRows(t) : IsSyntheticRow(t, r)
               ELSE NRows(t) = NRows(df)

\* C17 witness: a table with one label got its 50 rows, with several crops
\* among them.
C17_Witness ==
    /\ pc = "trained" /\ ~IsNone(train_df)
    /\ Cardinality(InputLabels) = 1
    /\ NRows(Val(train_df)) = NRows(df) + 50
    /\ Cardinality(Labels(Val(train_df), LabelColumn(Val(train_df)))) > 2

\* A canonical column is absent from the table after alias renaming.
LacksCanonicalColumn(t) ==
    \E f \in Range(required_features) : \A i \in 1..Len(t.cols) : column_mapping(t.cols[i]) # f

\* C18: when a canonical column is absent after alias renaming, train returns
\* the failure value (no model, no features, no crops, accuracy 0) by its early
\* return: nothing was labelled, augmented or fitted, and no exception was
\* raised on the way.
C18_MissingColumnFails ==
    (pc # "start" /\ LacksCanonicalColumn(df)) =>
        /\ IsNone(model) /\ IsNone(features) /\ IsNone(crops) /\ accuracy = 0
        /\ IsNone(train_df) /\ IsNone(scaler)
        /\ train_exc = "none"

\* C18 witness: train has returned for a table without a ph column, or for one
\* whose temperature column is headed TEMP.
C18_Witness ==
    /\ pc = "trained"
    /\ LacksCanonicalColumn(df)
    /\ ~HasCol(df, "ph") \/ HasCol(df, "TEMP")
    /\ IsNone(model)

\* C19: the feature table the classifier is fitted on has exactly six columns,
\* one per canonical feature, in the order nitrogen, phosphorus, potassium,
\* temperature, humidity, ph, whatever the input's column names.
C19_SixFeatureColumns ==
    ~IsNone(model) =>
        Val(model).fitted_on =
            <<"nitrogen", "phosphorus", "potassium", "temperature", "humidity", "ph">>

\* The five aliases and their canonical names.
AliasTarget(c) ==
    CASE c = "n" -> "nitrogen"
      [] c = "p" -> "phosphorus"
      [] c = "k" -> "potassium"
      [] c = "temp" -> "temperature"
      [] c = "hum" -> "humidity"
      [] OTHER -> c

\* C20: the columns train works on are the input's columns with exactly the
\* five aliases n, p, k, temp, hum renamed; every other column keeps its name,
\* and (rule labels aside) no column is added.
C20_OnlyFiveAliasesRenamed ==
    ~IsNone(train_df) =>
        /\ \A j \in 1..Len(df.cols) : Val(train_df).cols[j] = AliasTarget(df.cols[j])
        /\ \A j \in (Len(df.cols) + 1)..Len(Val(train_df).cols) :
              Val(train_df).cols[j] = "crop"

\* C21: a call of train_crop_recommendation_model leaves the caller's table as
\* it was (same column names, same rows, no crop column added, no synthetic
\* rows appended), whether it succeeds or fails.
C21_CallerTableUnchanged == [][df' = df]_vars

\* A call on a one-row sheet under the alias names without a crop column has
\* returned: its local table has the canonical names, a crop column and the
\* fifty synthetic rows, the caller's table has none of them.
C21_Witness ==
    /\ pc = "trained"
    /\ ~IsNone(train_df)
    /\ HasCol(df, "temp") /\ HasCol(Val(train_df), "temperature")
    /\ ~HasCol(df, "crop") /\ HasCol(Val(train_df), "crop")
    /\ NRows(Val(train_df)) = NRows(df) + SyntheticRows

\* Row r of t holds a missing or unparseable value in a feature column.
IncompleteRow(t, r) == \E f \in Range(required_features) : Cell(t, r, f).k # "num"

HasAllFeaturesOnce(t) == \A f \in Range(required_features) : ColCount(t, f) = 1

\* C22: a training row with a missing or unparseable value in one of the six
\* feature columns is dropped before fitting: training does not fail over it and
\* the table that is fitted holds no such row.
C22_IncompleteRowsDropped ==
    (/\ pc = "trained"
     /\ HasAllFeaturesOnce(Rename(df))
     /\ \E r \in 1..NRows(df) : IncompleteRow(Rename(df), r))
    => /\ train_exc = "none"
       /\ ~IsNone(train_df)
       /\ \A r \in 1..NRows(Val(train_df)) : ~IncompleteRow(Val(train_df), r)

KeptRows(t) ==
    IF HasCol(t, "timestamp")
    THEN SelectSeq(t.rows, LAMBDA row : ValidStamp(row[ColIdx(t, "timestamp")]))
    ELSE t.rows

\* C24: without an internal error the table process_historical_data returns for
\* a table with a timestamp column has only valid timestamps, in non-decreasing
\* order, no two equal rows, and no missing value in a numeric column (each was
\* replaced by the column's median); the input table is as it was; on an
\* internal error the table returned is the input table.
C24_CleanedTable ==
    ~IsNone(processed_df) =>
        LET out == Val(processed_df)
        IN  /\ hist_error => out = hist_df
            /\ (~hist_error /\ HasCol(hist_df, "timestamp")) =>
                  /\ \A r \in 1..NRows(out) : ValidStamp(Cell(out, r, "timestamp"))
                  /\ \A a, b \in 1..NRows(out) :
                        a < b => Cell(out, a, "timestamp").v <= Cell(out, b, "timestamp").v
                  /\ \A a, b \in 1..NRows(out) : a # b => out.rows[a] # out.rows[b]
                  /\ \A r \in 1..NRows(out) : \A j \in 1..Len(out.cols) :
                        out.cols[j] # "timestamp" => out.rows[r][j].k = "num"

\* The median of a non-empty set of numbers counted with multiplicity count(_):
\* the least m such that at least half of the values are <= m, averaged with
\* the next value when exactly half are.
ValuesOf(rows, j) == {rows[r][j].v : r \in {q \in 1..Len(rows) : rows[q][j].k = "num"}}

CountAtMost(rows, j, x) ==
    Cardinality({r \in 1..Len(rows) : rows[r][j].k = "num" /\ rows[r][j].v <= x})

CountPresent(rows, j) == Cardinality({r \in 1..Len(rows) : rows[r][j].k = "num"})

ColumnMedian(rows, j) ==
    LET n == CountPresent(rows, j)
        lo == CHOOSE x \in ValuesOf(rows, j) :
                 /\ 2 * CountAtMost(rows, j, x) >= n
                 /\ \A y \in ValuesOf(rows, j) : 2 * CountAtMost(rows, j, y) >= n => x <= y
        hi == CHOOSE x \in ValuesOf(rows, j) :
                 /\ 2 * CountAtMost(rows, j, x) >= n + 2
                 /\ \A y \in ValuesOf(rows, j) : 2 * CountAtMost(rows, j, y) >= n + 2 => x <= y
    IN  IF 2 * CountAtMost(rows, j, lo) = n THEN (lo + hi) \div 2 ELSE lo

\* A row with a valid timestamp as it is expected back: a cell that holds no
\* number holds the median of the numbers of its column, or stays missing when
\* the column holds none.
Expected(cols, kept, row) ==
    Tuple([j \in 1..Len(cols) |->
              IF cols[j] = "timestamp" \/ row[j].k = "num" THEN row[j]
              ELSE IF CountPresent(kept, j) = 0 THEN NaN
              ELSE Num(ColumnMedian(kept, j))],
          Len(cols))

\* C24 (amended): as C24, with the fill stated for the columns that hold a
\* value: the rows returned are the rows with a valid timestamp, each missing
\* or unparseable number replaced by the median of the numbers its column holds
\* in those rows; a column that holds none stays missing.
C24_CleanedTableWhereMedianExists ==
    ~IsNone(processed_df) =>
        LET out == Val(processed_df)
            kept == KeptRows(hist_df)
        IN  /\ hist_error => out = hist_df
            /\ (~hist_error /\ HasCol(hist_df, "timestamp")) =>
                  /\ out.cols = hist_df.cols
                  /\ \A r \in 1..NRows(out) : ValidStamp(Cell(out, r, "timestamp"))
                  /\ \A a, b \in 1..NRows(out) :
                        a < b => Cell(out, a, "timestamp").v <= Cell(out, b, "timestamp").v
                  /\ \A a, b \in 1..NRows(out) : a # b => out.rows[a] # out.rows[b]
                  /\ Range(out.rows) = {Expected(hist_df.cols, kept, kept[q]) : q \in 1..Len(kept)}
                  /\ \A r \in 1..NRows(out) : \A j \in 1..Len(out.cols) :
                        (out.cols[j] # "timestamp" /\ CountPresent(kept, j) > 0)
                           => out.rows[r][j].k = "num"

\* A table of three rows with valid timestamps that arrive out of order, two ph
\* readings and a missing one: the rows come back in order and the missing
\* reading is the mean of the two.
C24_Witness ==
    /\ ~IsNone(processed_df)
    /\ ~hist_error
    /\ hist_df.cols = <<"timestamp", "ph">>
    /\ NRows(hist_df) = 3
    /\ hist_df.rows[1][1] = Stamp(2) /\ hist_df.rows[2][1] = Stamp(1)
    /\ hist_df.rows[3][2] = NaN
    /\ NRows(Val(processed_df)) = 3
    /\ \E r \in 1..3 : Val(processed_df).rows[r][2] = Num(625)

\* C25: however the background thread and a download_code_zip call interleave,
\* the call serves a complete archive or reports that the zip is not available:
\* it never raises and never serves an archive that is incomplete.
C25_DownloadCompleteOrUnavailable ==
    download \in {"none", "served complete", "not available"}

\* C26: on the home page, whenever google_sheets_configured is true the
\* spreadsheet id, the sheet name and the credentials are non-empty, and a
\* submission or a reset turns google_sheets_configured on only when the
\* submission got a service and found the named tab.
ConfiguredIsComplete ==
    google_sheets_configured =>
        spreadsheet_id # "" /\ sheet_name # "" /\ credentials_json # ""

TurnedOnByConnecting ==
    (~google_sheets_configured /\ google_sheets_configured'
        /\ home_event'.kind \in {"submit", "reset"})
    => (home_event'.kind = "submit" /\ home_event'.service /\ home_event'.tab)

C26_ConfiguredOnlyByConnecting ==
    [](ConfiguredIsComplete) /\ [][TurnedOnByConnecting]_vars

C26_Witness ==
    /\ home_event.kind = "submit" /\ home_event.result = "connected"
    /\ google_sheets_configured
    /\ spreadsheet_id = "sheet-1" /\ sheet_name = "Log"

\* C27: a submission that fails leaves google_sheets_configured, the three
\* fields and the saved configuration file as they were.
C27_FailedSubmitChangesNothing ==
    [][(home_event'.kind = "submit" /\ home_event'.result # "connected")
        => UNCHANGED <<session, config_file>>]_vars

C27_Witness ==
    /\ home_event.kind = "submit" /\ home_event.result = "tab not found"
    /\ google_sheets_configured /\ sheet_name = "Sheet1"
    /\ config_file # None

\* C28: the saved configuration round-trips: a fresh session after a connect
\* whose file write succeeded starts configured with the same three fields; a
\* reset leaves the session unconfigured with empty fields, and a fresh session
\* after a reset starts unconfigured.
Cleared == <<FALSE, "", "", "">>

RestoredAfterConnect ==
    (/\ home_event.kind = "submit" /\ home_event.result = "connected"
     /\ home_event.write = "ok" /\ home_event'.kind = "init")
    => (google_sheets_configured' /\ UNCHANGED session)

ClearedByReset == home_event'.kind = "reset" => session' = Cleared

C28_ConfigurationRoundTrips ==
    [][/\ RestoredAfterConnect
       /\ ClearedByReset
       /\ (home_event.kind = "reset" /\ home_event'.kind = "init")
            => session' = Cleared]_vars

\* C28, amended: the fresh session after a reset starts unconfigured when the
\* reset removed the saved file or found none; the rest as stated.
C28_ConfigurationRoundTripsWhenRemoved ==
    [][/\ RestoredAfterConnect
       /\ ClearedByReset
       /\ (home_event.kind = "reset" /\ home_event.remove # "failed"
             /\ home_event'.kind = "init")
            => session' = Cleared]_vars

C28_Witness ==
    /\ home_event.kind = "init"
    /\ google_sheets_configured
    /\ spreadsheet_id = "sheet-1" /\ sheet_name = "Sheet1" /\ credentials_json = "key-A"

\* C29: for a range min < max the match percentage of one parameter does not
\* rise as the observed value moves farther below min or farther above max, is
\* the same at equal distances below min and above max, and is 0 at any
\* distance of at least half the width of the range.
SymmetricAndZeroFarOut ==
    match_pair # None =>
        /\ Val(match_pair)[1] = Val(match_pair)[2]
        /\ 2 * outside >= ideal_range[2] - ideal_range[1] => Val(match_pair) = <<0, 0>>

NotRising ==
    (match_pair # None /\ match_pair' # None /\ outside' > outside)
    => (Val(match_pair')[1] <= Val(match_pair)[1] /\ Val(match_pair')[2] <= Val(match_pair)[2])

C29_MatchFallsSymmetrically ==
    [](SymmetricAndZeroFarOut) /\ [][NotRising]_vars

C29_Witness ==
    /\ match_pair # None
    /\ ideal_range[2] - ideal_range[1] = 7 /\ outside = 3
    /\ Val(match_pair) = <<14, 14>>

\* C30: get_sheet_data returns None or a table and never raises: None without a
\* service, on an API error, for a sheet without values and on a conversion
\* error (a row longer than the headers); an empty table with the sheet's
\* headers for a header-only sheet; otherwise a table with one row per data
\* row, each with as many cells as there are headers, short rows ending in
\* empty cells.
EmptyCell(cell) == cell.k \in {"none", "nan"}

AsTextOrNumber(text) ==
    {Str(text)} \cup {Num(Val(n)) : n \in {NumberOf(text)} \ {None}}

Fetched == sheet.service /\ sheet.api_ok /\ sheet.values # << >>

TooLong == \E r \in 2..Len(sheet.values) : Len(sheet.values[r]) > Len(sheet.values[1])

C30_NoneOrRectangularTable ==
    sheet_result # NotCalled =>
        /\ sheet_result.state = "returned"
        /\ ~Fetched => sheet_result.df = None
        /\ (Fetched /\ Len(sheet.values) = 1) =>
              sheet_result.df = Some([cols |-> sheet.values[1], rows |-> << >>])
        /\ (Fetched /\ Len(sheet.values) > 1) =>
              IF TooLong THEN sheet_result.df = None
              ELSE /\ sheet_result.df # None
                   /\ Len(Val(sheet_result.df).cols) = Len(sheet.values[1])
                   /\ Len(Val(sheet_result.df).rows) = Len(sheet.values) - 1
                   /\ \A r \in 1..Len(sheet.values) - 1 :
                         /\ Len(Val(sheet_result.df).rows[r]) = Len(sheet.values[1])
                         /\ \A j \in 1..Len(sheet.values[1]) :
                               IF j > Len(sheet.values[r + 1])
                               THEN EmptyCell(Val(sheet_result.df).rows[r][j])
                               ELSE Val(sheet_result.df).rows[r][j]
                                       \in AsTextOrNumber(sheet.values[r + 1][j])

C30_Witness ==
    /\ sheet_result.df # None
    /\ sheet.values = <<<<"Timestamp", "N">>, <<"wet">>, <<"wet", "7">>>>
    /\ Val(sheet_result.df).cols = <<"Timestamp", "nitrogen">>
    /\ Val(sheet_result.df).rows = <<<<Str("wet"), NaN>>, <<Str("wet"), Num(7 * FP)>>>>

====
